---- MODULE Spec2Model ----
(***************************************************************************)
(* The orchestration engine of agent-kit: the Agent run loop in its two    *)
(* variants (the finish-reason loop and the completion-tool loop of        *)
(* agent/agent.ts), the concurrent tool dispatch of one assistant message, *)
(* and the host's approval gate (hooks/useApproval.ts) with its session    *)
(* caches and its promise-chained prompt queue.                            *)
(*                                                                         *)
(* JavaScript runs every continuation to its next await before any other   *)
(* event is handled, so one action of the model is one event (a provider   *)
(* response, a human decision, a tool handler returning) together with all *)
(* the synchronous code and microtasks that follow it.                     *)
(***************************************************************************)
EXTENDS Integers, Sequences, FiniteSets, TLC

\* ------------------------------------------------------------------ bounds
\* maxIterations given to the Agent (the default of the program is 30).
MaxIterations == 2
\* The largest number of tool calls the backend puts in one assistant message.
MaxCalls == 2

\* --------------------------------------------------------------- constants
\* The names the backend may call.
ToolNames == {"read", "web_fetch", "bash", "attempt_completion"}
\* toolCall.function.arguments: a JSON text, or a text JSON.parse rejects.
Arguments == {"json", "malformed"}
\* A tool call as the backend emits it.
ToolCall(name, arguments) == [name |-> name, arguments |-> arguments]
\* Calls with well-formed arguments, to every name.
WellFormedCalls == {ToolCall(n, "json") : n \in ToolNames}
\* Calls that exercise the error paths of the dispatch: a handler that may
\* throw, malformed arguments to a gated tool and to attempt_completion, and
\* a name that is in no registry.
FaultyCalls ==
  {ToolCall("read", "json"), ToolCall("bash", "malformed"),
   ToolCall("attempt_completion", "malformed"), ToolCall("no_such_tool", "json")}
\* The names that have a handler in the registry given to the Agent.
toolHandlers == {"read", "web_fetch", "bash", "task"}
ApprovalDecision == {"allow_once", "allow_always", "deny_once", "deny_always"}
\* The two versions of Agent.run.
Variants == {"finish_reason", "completion_tool"}

VARIABLES
  variant,            \* which Agent.run this Agent has
  onApprovalNeeded,   \* TRUE iff the host supplied an approval source
  pc,                 \* "idle" | "awaitCompletion" | "executing" | "done"
  iterations,         \* the local `iterations` of run
  messages,           \* this.messages
  sent,               \* the message list of the latest completion request
  requests,           \* number of completion requests issued by the run
  batch,              \* the tool calls of the latest assistant message
  completionResult,   \* executeToolCalls' completionResult: <<>> for null,
                      \* <<id>> for the result string of call id
  result,             \* the AgentResult returned by run ("none" before)
  lastResponse,       \* kind of the latest provider response
  onlyToolCalls,      \* every response so far carried tool calls
  nextId,             \* next fresh tool-call id
  outOfOrder,         \* a call of the latest message settled before an
                      \* earlier call of that message did
  sessionAllowed,     \* useApproval: sessionAllowed.current
  sessionDenied,      \* useApproval: sessionDenied.current
  approvalQueue,      \* requests chained on approvalQueueRef, not yet shown
  presented,          \* id of the request whose prompt is shown (0: none)
  promptLog,          \* ids in the order their prompts were shown
  resolved,           \* ids of the requests a human decision resolved
  \* ---- a provider adapter's chatCompletion, as one run calls it
  call,               \* "idle" | "fetching" | "waiting" | "returned" | "threw"
  attempt,            \* the loop variable `attempt`
  signalAborted,      \* options.signal.aborted
  completions,        \* chatCompletion calls made by the run so far
  issued,             \* requests (fetch) issued over the run
  fetches,            \* requests issued by the current call
  failures,           \* the errors the current call has caught, in order
  retries,            \* the onRetry notifications of the current call
  delays,             \* the backoff delays (ms) of the current call
  thrown,             \* the error the current call rejected with
  \* ---- the host's context manager (hooks/useSession.ts)
  contextWindow,      \* getContextWindow(model)
  latestPrompt,       \* totalUsage.latestPromptTokens ?? 0
  history,            \* conversationHistoryRef.current
  input,              \* the history the latest pruneHistory was given
  pruned,             \* pruneHistory ran since the usage last changed
  \* ---- token accounting over the runs of a session
  running,            \* the host awaits agent.run
  runUsage,           \* the local totalUsage of that run
  totalUsage,         \* useContextManager: totalUsage (without
                      \* latestPromptTokens, which is latestPrompt)
  runs,               \* runs started in the session
  responses,          \* provider responses of the current run
  lastReported,       \* prompt_tokens of the latest response with usage
  reported,           \* sums of the completion_tokens and total_tokens of
                      \* the responses with usage
  allRecorded,        \* every run so far returned and was recorded
  \* ---- delegation (tools/task-tool.ts)
  subagents,          \* the Agent of each delegation call, by call id, once
                      \* it has gone past its first completion request
  tools,              \* the `tools` argument of a delegation call
  subagentEntries,    \* the entries the handler gave the sub-agent
  missing,            \* the names the handler warned about
  constructed,        \* the handler has constructed the sub-agent
  \* ---- several run calls on one Agent instance
  sharedMessages,     \* this.messages of the instance
  runCalls,           \* each run call: its position, its local `iterations`
                      \* and the message list of its latest request
  \* ---- parseSSEStream of the Copilot adapter
  deltas,             \* the tool-call deltas of the stream, in arrival order
  consumed,           \* how many of them the parser has processed
  toolCalls,          \* the parser's `toolCalls`, by index
  assembledToolCalls, \* Object.values(toolCalls) once the stream has ended
  streamEnded,        \* reader.read() has returned done
  \* ---- the host's App component
  mode,               \* the `mode` state: its kind and, in approval mode,
                      \* the id of the request whose prompt is rendered
  loading,            \* the `loading` state
  commands,           \* the runCommand calls waiting at their await
  approvalRequests,   \* the tool name of each request handleApprovalNeeded
                      \* was called with, by request id
  \* ---- the read loop of an adapter's parseSSEStream
  sseAdapter,         \* the adapter whose parser reads
  body,               \* the bytes of the response body
  readPos,            \* how many of them reader.read() has returned
  heldBytes,          \* the bytes the TextDecoder holds back
  buffer,             \* the local `buffer`
  decoded,            \* the payloads of the events handled so far
  streamDone,         \* the Codex parser's `streamDone`
  readerDone,         \* reader.read() has returned done
  lineSplit,          \* a handled event's line arrived in two reads
  \* ---- the text chunks of the adapter calls
  chunks,             \* the text deltas handed to onChunk, in order
  \* ---- the response an adapter builds
  respAdapter,        \* the adapter
  providerEvents,     \* what the provider streamed
  chatResponse,       \* the ChatResponse returned (<<>>: not yet)
  \* ---- a run with nested delegation
  nest,               \* the agents waiting for each other, outermost first
  spawned,            \* sub-agents constructed so far
  runReturned         \* the host's run has returned

agentVars == <<variant, onApprovalNeeded, pc, iterations, messages, sent,
               requests, batch, completionResult, result, lastResponse,
               onlyToolCalls, nextId, outOfOrder, sessionAllowed,
               sessionDenied, approvalQueue, presented, promptLog, resolved>>

adapterVars == <<call, attempt, signalAborted, completions, issued, fetches,
                 failures, retries, delays, thrown>>

contextVars == <<contextWindow, latestPrompt, history, input, pruned>>

usageVars == <<running, runUsage, totalUsage, runs, responses, lastReported,
               reported, allRecorded>>

taskVars == <<subagents, tools, subagentEntries, missing, constructed>>

overlapVars == <<sharedMessages, runCalls>>

streamVars == <<deltas, consumed, toolCalls, assembledToolCalls, streamEnded>>

hostVars == <<mode, loading, commands, approvalRequests>>

sseVars == <<sseAdapter, body, readPos, heldBytes, buffer, decoded, streamDone,
            readerDone, lineSplit>>

chunkVars == <<chunks>>

responseVars == <<respAdapter, providerEvents, chatResponse>>

nestVars == <<nest, spawned, runReturned>>

vars == <<agentVars, adapterVars, contextVars, usageVars, taskVars,
          overlapVars, streamVars, hostVars, sseVars, chunkVars,
          responseVars, nestVars>>

gateVars == <<sessionAllowed, sessionDenied, approvalQueue, presented,
              promptLog, resolved>>

\* ---------------------------------------------------------------- messages
\* A ChatMessage: its role, the ids of its tool calls (assistant) and the id
\* it answers (tool).  Texts are not modelled; the payload of a tool message
\* is the `content` of its call, which `batch` holds until it is pushed.
Msg(role, calls, id) ==
  [role |-> role, tool_calls |-> calls, tool_call_id |-> id]

SystemMsg == Msg("system", <<>>, 0)
UserMsg == Msg("user", <<>>, 0)
AssistantMsg(b) == Msg("assistant", [i \in 1..Len(b) |-> b[i].id], 0)
ToolMsg(c) == Msg("tool", <<>>, c.id)

\* --------------------------------------------------------- approval policy
\* SAFE_TOOLS of the finish-reason version of Agent.requestApproval.
SAFE_TOOLS_v1 == {"read", "glob", "grep", "web_fetch", "todo_read"}
\* SAFE_TOOLS of core/policy.ts.
SAFE_TOOLS == {"read", "glob", "grep", "todo_read"}

requiresApproval_open(toolName) == FALSE

requiresApproval(toolName) == toolName \notin SAFE_TOOLS

\* The first line of Agent.requestApproval: TRUE iff the approval source is
\* invoked for a call to `name`.
Gated(v, source, name) ==
  /\ source
  /\ IF v = "finish_reason" THEN name \notin SAFE_TOOLS_v1
                            ELSE requiresApproval(name)

\* Agent.requestApproval: the decision values that let the call proceed.
Proceeds_notDenyOnce(decision) == decision # "deny_once"

Proceeds(decision) == decision \in {"allow_once", "allow_always"}

\* ------------------------------------------------------------- tool calls
\* One tool call of the latest assistant message, as the async callback of
\* executeToolCalls sees it.
\*   status   "approval" (awaiting the decision), "running" (handler
\*            awaited), "settled" (the callback returned its result)
\*   content  kind of the tool-result payload: "result" for {result: ...},
\*            "error" for {error: String(e)} or {error: Unknown tool},
\*            "denied" for {error: Tool '..' was denied by the user.}
\*   events   the ToolCallEvent statuses given to onToolCall for this call
\*   asked    the approval source was invoked for this call
\*   invoked  the registry handler was invoked for this call
NewCall(id, tc) ==
  [id |-> id, name |-> tc.name, arguments |-> tc.arguments, status |-> "new",
   content |-> "none", events |-> <<>>, asked |-> FALSE, decision |-> "none",
   invoked |-> FALSE]

\* Agent.handleToolCall, entered after the "started" event: an unknown name
\* returns {error} at once; JSON.parse of malformed arguments throws inside
\* the try, which returns {error} without the handler being invoked; else
\* the handler is awaited.
handleToolCall(c) ==
  IF c.name \in toolHandlers /\ c.arguments # "malformed"
    THEN [c EXCEPT !.status = "running", !.invoked = TRUE,
                   !.events = Append(c.events, "started")]
    ELSE [c EXCEPT !.status = "settled", !.content = "error",
                   !.events = c.events \o <<"started", "completed">>]

\* The `approval === "denied"` branch of the callback.
Denied(c) ==
  [c EXCEPT !.status = "settled", !.content = "denied",
            !.events = Append(c.events, "denied")]

\* The attempt_completion branch of executeToolCalls.
Completion(c) ==
  [c EXCEPT !.status = "settled", !.content = "result",
            !.events = Append(c.events, "completed")]

\* The callback once requestApproval has its decision.
AfterDecision(c, decision) ==
  IF Proceeds(decision) THEN handleToolCall([c EXCEPT !.decision = decision])
                        ELSE Denied([c EXCEPT !.decision = decision])

\* useApproval.handleApprovalNeeded up to its return: a cached decision, or
\* "queued" when the request is chained on approvalQueueRef.
handleApprovalNeeded(name, allowed, denied) ==
  IF name \in allowed THEN "allow_always"
  ELSE IF name \in denied THEN "deny_always"
  ELSE "queued"

\* The callback of executeToolCalls for one call, run to its first pending
\* await.  The caches do not change while the calls of one message start.
StartCall(v, source, allowed, denied, c) ==
  IF v = "completion_tool" /\ c.name = "attempt_completion" THEN Completion(c)
  ELSE IF ~Gated(v, source, c.name) THEN handleToolCall(c)
  ELSE LET a == [c EXCEPT !.asked = TRUE]
           d == handleApprovalNeeded(c.name, allowed, denied)
       IN IF d = "queued" THEN [a EXCEPT !.status = "approval"]
                          ELSE AfterDecision(a, d)

\* the first completion call of the message gives the result.
completionResultOf_first(b) ==
  LET at == {i \in 1..Len(b) : b[i].name = "attempt_completion"}
  IN IF at = {} THEN <<>>
     ELSE <<b[CHOOSE i \in at : \A j \in at : i <= j].id>>

\* completionResult after the callbacks of the message have started: each
\* attempt_completion callback assigns its result string, in call order.
completionResultOf(b) ==
  LET at == {i \in 1..Len(b) : b[i].name = "attempt_completion"}
  IN IF at = {} THEN <<>>
     ELSE <<b[CHOOSE i \in at : \A j \in at : i >= j].id>>

\* choice.message.tool_calls.map(async ...): every call is started.
StartAll(v, source, allowed, denied, calls, firstId) ==
  [i \in 1..Len(calls) |->
     StartCall(v, source, allowed, denied, NewCall(firstId + i - 1, calls[i]))]

\* ids of the calls that were chained on the approval queue, in call order.
Queued(b) ==
  SelectSeq([i \in 1..Len(b) |-> b[i]], LAMBDA c : c.status = "approval")

QueuedIds(b) == [i \in 1..Len(Queued(b)) |-> Queued(b)[i].id]

IndexOf(b, id) == CHOOSE i \in 1..Len(b) : b[i].id = id

\* Some call of b has settled while an earlier call of b has not.
SettledOutOfOrder(b) ==
  \E i, j \in 1..Len(b) :
    i < j /\ b[i].status # "settled" /\ b[j].status = "settled"

\* Promise.any instead of Promise.all.
AllSettled_any(b) == \E i \in 1..Len(b) : b[i].status = "settled"

\* Promise.all(...) has resolved.
AllSettled(b) == \A i \in 1..Len(b) : b[i].status = "settled"

\* results pushed in reverse (completion) order.
toolCallResults_reversed(b) ==
  [i \in 1..Len(b) |-> ToolMsg(b[Len(b) + 1 - i])]

\* a denied call yields no result.
toolCallResults_dropDenied(b) ==
  LET kept == SelectSeq(b, LAMBDA c : c.content # "denied")
  IN [i \in 1..Len(kept) |-> ToolMsg(kept[i])]

\* The tool messages pushed after Promise.all: one per call, in call order.
toolCallResults(b) == [i \in 1..Len(b) |-> ToolMsg(b[i])]

\* ------------------------------------------------------- approval queue
CanPresent_always(shown) == TRUE

\* The promise chain of approvalQueueRef: the next request's setMode runs
\* when the previous request's `done` was called.
CanPresent(shown) == shown = 0

RECURSIVE Drain(_, _, _)
Drain(q, shown, log) ==
  IF q # <<>> /\ CanPresent(shown)
    THEN Drain(Tail(q), Head(q), Append(log, Head(q)))
    ELSE [queue |-> q, presented |-> shown, log |-> log]

\* ----------------------------------------------------------------- loop
NoResult == [answer |-> "none", iterations |-> 0]

BudgetLeft_inclusive(its) == its <= MaxIterations

\* `iterations < this.maxIterations`
BudgetLeft(its) == its < MaxIterations

\* A completion request: nextCompletion / aiClient.chatCompletion is awaited.
Request(msgs) ==
  /\ pc' = "awaitCompletion"
  /\ messages' = msgs
  /\ sent' = msgs
  /\ requests' = requests + 1
  /\ result' = result

Return(msgs, answer, its) ==
  /\ pc' = "done"
  /\ messages' = msgs
  /\ result' = [answer |-> answer, iterations |-> its]
  /\ UNCHANGED <<sent, requests>>

\* ------------------------------------------------------------------ state
\* No completion call has been made.
AdapterIdle ==
  /\ call = "idle"
  /\ attempt = 0
  /\ signalAborted = FALSE
  /\ completions = 0
  /\ issued = 0
  /\ fetches = 0
  /\ failures = <<>>
  /\ retries = <<>>
  /\ delays = <<>>
  /\ thrown = "none"

\* useContextManager and the conversation history of a fresh session.
DEFAULT_CONTEXT_WINDOW == 128000

ContextFresh ==
  /\ contextWindow = DEFAULT_CONTEXT_WINDOW
  /\ latestPrompt = 0
  /\ history = <<>>
  /\ input = <<>>
  /\ pruned = FALSE

\* { promptTokens: 0, completionTokens: 0, totalTokens: 0 }
NoUsage == [promptTokens |-> 0, completionTokens |-> 0, totalTokens |-> 0]

\* No run has been made in the session.
UsageFresh ==
  /\ running = FALSE
  /\ runUsage = NoUsage
  /\ totalUsage = NoUsage
  /\ runs = 0
  /\ responses = 0
  /\ lastReported = 0
  /\ reported = [completionTokens |-> 0, totalTokens |-> 0]
  /\ allRecorded = TRUE

\* JSON null for the `tools` argument, and a list of names.
NullTools == [isNull |-> TRUE, names |-> <<>>]
ToolList(names) == [isNull |-> FALSE, names |-> names]

\* No delegation call has been made.
TaskFresh ==
  /\ subagents = [id \in {} |-> <<>>]
  /\ tools = NullTools
  /\ subagentEntries = {}
  /\ missing = {}
  /\ constructed = FALSE

\* The largest number of run calls made on one Agent instance.
MaxRunCalls == 2

\* A run call that has not been made.
NotCalled == [pc |-> "idle", iterations |-> 0, sent |-> <<>>]

\* The instance after construction: `messages = []`, no run call made.
OverlapFresh ==
  /\ sharedMessages = <<>>
  /\ runCalls = [r \in 1..MaxRunCalls |-> NotCalled]

\* No response is being streamed.
StreamFresh ==
  /\ deltas = <<>>
  /\ consumed = 0
  /\ toolCalls = [idx \in {} |-> <<>>]
  /\ assembledToolCalls = <<>>
  /\ streamEnded = FALSE

\* The mode the App starts in and returns to.
Chat == [kind |-> "chat", id |-> 0]

\* `useState<Mode>({ kind: "chat" })`, `useState(false)`; no command runs.
HostFresh ==
  /\ mode = Chat
  /\ loading = FALSE
  /\ commands = {}
  /\ approvalRequests = <<>>

\* No body is being read.
SSEFresh ==
  /\ sseAdapter = "copilot"
  /\ body = <<>>
  /\ readPos = 0
  /\ heldBytes = <<>>
  /\ buffer = <<>>
  /\ decoded = <<>>
  /\ streamDone = FALSE
  /\ readerDone = FALSE
  /\ lineSplit = FALSE

\* No text delta has been streamed.
ChunksFresh == chunks = <<>>

\* No response is being built.
ResponseFresh ==
  /\ respAdapter = "copilot"
  /\ providerEvents = <<>>
  /\ chatResponse = <<>>

\* No run with nested delegation is going on.
NestFresh ==
  /\ nest = <<>>
  /\ spawned = 0
  /\ runReturned = FALSE

\* The Agent after construction, before run.
AgentConstructed ==
  /\ pc = "idle"
  /\ iterations = 0
  /\ messages = <<>>
  /\ sent = <<>>
  /\ requests = 0
  /\ batch = <<>>
  /\ completionResult = <<>>
  /\ result = NoResult
  /\ lastResponse = "none"
  /\ onlyToolCalls = TRUE
  /\ nextId = 1
  /\ outOfOrder = FALSE
  /\ sessionAllowed = {}
  /\ sessionDenied = {}
  /\ approvalQueue = <<>>
  /\ presented = 0
  /\ promptLog = <<>>
  /\ resolved = {}

Init ==
  /\ variant \in Variants
  /\ onApprovalNeeded \in BOOLEAN
  /\ AgentConstructed
  /\ AdapterIdle
  /\ ContextFresh
  /\ UsageFresh
  /\ TaskFresh
  /\ OverlapFresh
  /\ StreamFresh
  /\ HostFresh
  /\ SSEFresh
  /\ ChunksFresh
  /\ ResponseFresh
  /\ NestFresh

\* Agent.run up to its first await: the messages are seeded and the first
\* completion is requested.
Run ==
  /\ pc = "idle"
  /\ LET seed == <<SystemMsg, UserMsg>> IN
     IF variant = "finish_reason"
       THEN /\ iterations' = 0
            /\ Request(seed)
       ELSE IF BudgetLeft(0)
         THEN /\ iterations' = 1
              /\ Request(seed)
         ELSE /\ iterations' = 0
              /\ Return(seed, "max_iterations", 0)
  /\ UNCHANGED <<adapterVars, contextVars, usageVars, taskVars, overlapVars,
                 streamVars, hostVars, sseVars, chunkVars, responseVars,
                 nestVars>>
  /\ UNCHANGED <<variant, onApprovalNeeded, batch, completionResult,
                 lastResponse, onlyToolCalls, nextId, outOfOrder>>
  /\ UNCHANGED gateVars

\* aiClient.chatCompletion rejects: run has no try/catch around it.
CompletionThrows ==
  /\ pc = "awaitCompletion"
  /\ pc' = "threw"
  /\ lastResponse' = "throw"
  /\ onlyToolCalls' = FALSE
  /\ UNCHANGED <<adapterVars, contextVars, usageVars, taskVars, overlapVars,
                 streamVars, hostVars, sseVars, chunkVars, responseVars,
                 nestVars>>
  /\ UNCHANGED <<variant, onApprovalNeeded, iterations, messages, sent,
                 requests, batch, completionResult, result, nextId,
                 outOfOrder>>
  /\ UNCHANGED gateVars

\* aiClient.chatCompletion rejects because the caller raised options.signal
\* (only the completion-tool version passes a signal to the adapter).
CompletionAborts ==
  /\ pc = "awaitCompletion"
  /\ variant = "completion_tool"
  /\ pc' = "aborted"
  /\ lastResponse' = "abort"
  /\ onlyToolCalls' = FALSE
  /\ UNCHANGED <<adapterVars, contextVars, usageVars, taskVars, overlapVars,
                 streamVars, hostVars, sseVars, chunkVars, responseVars,
                 nestVars>>
  /\ UNCHANGED <<variant, onApprovalNeeded, iterations, messages, sent,
                 requests, batch, completionResult, result, nextId,
                 outOfOrder>>
  /\ UNCHANGED gateVars

\* the empty response is answered by another completion request.
CompletionEmpty_retry ==
  /\ pc = "awaitCompletion"
  /\ lastResponse' = "empty"
  /\ onlyToolCalls' = FALSE
  /\ iterations' = iterations
  /\ Request(messages)
  /\ UNCHANGED <<adapterVars, contextVars, usageVars, taskVars, overlapVars,
                 streamVars, hostVars, sseVars, chunkVars, responseVars,
                 nestVars>>
  /\ UNCHANGED <<variant, onApprovalNeeded, batch, completionResult, nextId,
                 outOfOrder>>
  /\ UNCHANGED gateVars

\* The response has an empty choices array.
CompletionEmpty ==
  /\ pc = "awaitCompletion"
  /\ lastResponse' = "empty"
  /\ onlyToolCalls' = FALSE
  /\ iterations' = iterations
  /\ Return(messages, "no_response", iterations)
  /\ UNCHANGED <<adapterVars, contextVars, usageVars, taskVars, overlapVars,
                 streamVars, hostVars, sseVars, chunkVars, responseVars,
                 nestVars>>
  /\ UNCHANGED <<variant, onApprovalNeeded, batch, completionResult, nextId,
                 outOfOrder>>
  /\ UNCHANGED gateVars

\* The response is plain text (finish_reason stop, no tool calls).
CompletionText ==
  /\ pc = "awaitCompletion"
  /\ lastResponse' = "text"
  /\ onlyToolCalls' = FALSE
  /\ iterations' = iterations
  /\ IF variant = "finish_reason" /\ ~BudgetLeft(iterations)
       THEN Return(messages, "max_iterations", iterations)
       ELSE Return(messages, "text", iterations)
  /\ UNCHANGED <<adapterVars, contextVars, usageVars, taskVars, overlapVars,
                 streamVars, hostVars, sseVars, chunkVars, responseVars,
                 nestVars>>
  /\ UNCHANGED <<variant, onApprovalNeeded, batch, completionResult, nextId,
                 outOfOrder>>
  /\ UNCHANGED gateVars

\* The response is text cut off by the token limit (finish_reason length,
\* no tool calls): neither loop looks at that finish reason, so the response
\* is handled as plain text is.
CompletionLength ==
  /\ pc = "awaitCompletion"
  /\ lastResponse' = "length"
  /\ onlyToolCalls' = FALSE
  /\ iterations' = iterations
  /\ IF variant = "finish_reason" /\ ~BudgetLeft(iterations)
       THEN Return(messages, "max_iterations", iterations)
       ELSE Return(messages, "truncated_text", iterations)
  /\ UNCHANGED <<adapterVars, contextVars, usageVars, taskVars, overlapVars,
                 streamVars, hostVars, sseVars, chunkVars, responseVars,
                 nestVars>>
  /\ UNCHANGED <<variant, onApprovalNeeded, batch, completionResult, nextId,
                 outOfOrder>>
  /\ UNCHANGED gateVars

\* The response carries tool calls (finish_reason tool_calls): the assistant
\* message is pushed and every call is started.
CompletionToolCalls(calls) ==
  /\ pc = "awaitCompletion"
  /\ lastResponse' = "tool_calls"
  /\ onlyToolCalls' = onlyToolCalls
  /\ IF variant = "finish_reason" /\ ~BudgetLeft(iterations)
       THEN \* the while condition fails: the loop is left
            /\ iterations' = iterations
            /\ Return(messages, "max_iterations", iterations)
            /\ UNCHANGED <<batch, completionResult, nextId, outOfOrder>>
            /\ UNCHANGED gateVars
       ELSE LET its == IF variant = "finish_reason" THEN iterations + 1
                                                    ELSE iterations
                b == StartAll(variant, onApprovalNeeded, sessionAllowed,
                              sessionDenied, calls, nextId)
                cr == IF variant = "completion_tool"
                        THEN completionResultOf(b) ELSE <<>>
                d == Drain(approvalQueue \o QueuedIds(b), presented, promptLog)
            IN /\ nextId' = nextId + Len(calls)
               /\ outOfOrder' = SettledOutOfOrder(b)
               /\ completionResult' = cr
               /\ approvalQueue' = d.queue
               /\ presented' = d.presented
               /\ promptLog' = d.log
               /\ UNCHANGED <<sessionAllowed, sessionDenied, resolved>>
               /\ pc' = "executing"
               /\ iterations' = its
               /\ messages' = Append(messages, AssistantMsg(b))
               /\ batch' = b
               /\ UNCHANGED <<sent, requests, result>>
  /\ UNCHANGED <<adapterVars, contextVars, usageVars, taskVars, overlapVars,
                 streamVars, hostVars, sseVars, chunkVars, responseVars,
                 nestVars>>
  /\ UNCHANGED <<variant, onApprovalNeeded>>

\* The human answers the prompt that is shown (ApprovalPrompt onDecide; the
\* escape key answers deny_once): the `resolve` closure of
\* handleApprovalNeeded runs, then the callback of the call goes on.
Decide(decision) ==
  /\ pc = "executing"
  /\ presented # 0
  /\ LET i == IndexOf(batch, presented)
         c == batch[i]
         b == [batch EXCEPT ![i] = AfterDecision(c, decision)]
         d == Drain(approvalQueue, 0, promptLog)
     IN /\ sessionAllowed' = IF decision = "allow_always"
                               THEN sessionAllowed \cup {c.name}
                               ELSE sessionAllowed
        /\ sessionDenied' = IF decision = "deny_always"
                              THEN sessionDenied \cup {c.name}
                              ELSE sessionDenied
        /\ resolved' = resolved \cup {c.id}
        /\ approvalQueue' = d.queue
        /\ presented' = d.presented
        /\ promptLog' = d.log
        /\ batch' = b
        /\ outOfOrder' = (outOfOrder \/ SettledOutOfOrder(b))
  /\ UNCHANGED <<adapterVars, contextVars, usageVars, taskVars, overlapVars,
                 streamVars, hostVars, sseVars, chunkVars, responseVars,
                 nestVars>>
  /\ UNCHANGED <<variant, onApprovalNeeded, pc, iterations, messages, sent,
                 requests, completionResult, result, lastResponse,
                 onlyToolCalls, nextId>>

\* The handler of call i returns (ok) or throws: handleToolCall wraps the
\* outcome as {result} or {error}, the "completed" event is emitted and the
\* callback returns.
HandlerSettles(i, ok) ==
  /\ pc = "executing"
  /\ i \in 1..Len(batch)
  /\ batch[i].status = "running"
  /\ LET c == batch[i]
         b == [batch EXCEPT ![i] =
                 [c EXCEPT !.status = "settled",
                           !.content = IF ok THEN "result" ELSE "error",
                           !.events = Append(c.events, "completed")]]
     IN /\ batch' = b
        /\ outOfOrder' = (outOfOrder \/ SettledOutOfOrder(b))
  /\ UNCHANGED <<variant, onApprovalNeeded, pc, iterations, messages, sent,
                 requests, completionResult, result, lastResponse,
                 onlyToolCalls, nextId>>
  /\ UNCHANGED gateVars

\* A handler of the registry settles: nothing else changes.
HandlerReturns(i, ok) ==
  /\ HandlerSettles(i, ok)
  /\ UNCHANGED <<adapterVars, contextVars, usageVars, taskVars, overlapVars,
                 streamVars, hostVars, sseVars, chunkVars, responseVars,
                 nestVars>>

\* Promise.all has resolved: executeToolCalls pushes one tool message per
\* call and returns; run returns the completion result, requests the next
\* completion, or leaves the loop with the budget exhausted.
AfterToolCalls ==
  /\ pc = "executing"
  /\ AllSettled(batch)
  /\ LET after == messages \o toolCallResults(batch) IN
     IF variant = "finish_reason"
       THEN /\ iterations' = iterations
            /\ Request(after)
       ELSE IF completionResult # <<>>
         THEN /\ iterations' = iterations
              /\ Return(after, "completion", iterations)
         ELSE IF BudgetLeft(iterations)
           THEN /\ iterations' = iterations + 1
                /\ Request(after)
           ELSE /\ iterations' = iterations
                /\ Return(after, "max_iterations", iterations)
  /\ batch' = <<>>
  /\ promptLog' = <<>>
  /\ resolved' = {}
  /\ UNCHANGED <<variant, onApprovalNeeded, completionResult, lastResponse,
                 onlyToolCalls, nextId, outOfOrder, sessionAllowed,
                 sessionDenied, approvalQueue, presented>>

\* executeToolCalls returns to run: nothing else changes.
ExecuteToolCallsReturn ==
  /\ AfterToolCalls
  /\ UNCHANGED <<adapterVars, contextVars, usageVars, taskVars, overlapVars,
                 streamVars, hostVars, sseVars, chunkVars, responseVars,
                 nestVars>>

\* The assistant messages the backend may produce: 1..MaxCalls calls.
CallLists(offered) == UNION {[1..k -> offered] : k \in 1..MaxCalls}

Next ==
  \/ Run
  \/ CompletionThrows
  \/ CompletionAborts
  \/ CompletionEmpty
  \/ CompletionText
  \/ CompletionLength
  \/ \E calls \in CallLists(WellFormedCalls) : CompletionToolCalls(calls)
  \/ \E decision \in ApprovalDecision : Decide(decision)
  \/ \E i \in 1..MaxCalls, ok \in BOOLEAN : HandlerReturns(i, ok)
  \/ ExecuteToolCallsReturn

Spec == Init /\ [][Next]_vars

\* The same Agent with a backend that emits the faulty calls.
NextFaulty ==
  \/ Run
  \/ CompletionThrows
  \/ CompletionAborts
  \/ CompletionEmpty
  \/ CompletionText
  \/ CompletionLength
  \/ \E calls \in CallLists(FaultyCalls) : CompletionToolCalls(calls)
  \/ \E decision \in ApprovalDecision : Decide(decision)
  \/ \E i \in 1..MaxCalls, ok \in BOOLEAN : HandlerReturns(i, ok)
  \/ ExecuteToolCallsReturn

SpecFaulty == Init /\ [][NextFaulty]_vars

\* ======================================================= provider adapter
\* chatCompletion of the provider adapters (Codex, Copilot and Claude share
\* the loop): up to maxRetries attempts, each a request to the provider, with
\* a notification and a backoff wait between them.  One action is one event:
\* the call being made, an attempt settling, the backoff timer firing, the
\* caller raising the signal.
\* The largest number of chatCompletion calls one run makes.
MaxCompletions == 2

maxRetries == 3

\* String(e) of the transport and provider failures of an attempt.
Errors == {"fetch failed", "API error 500"}

\* signal.throwIfAborted() never throws.
throwIfAborted_never(aborted) == FALSE

\* options?.signal?.throwIfAborted(): TRUE iff it throws.
throwIfAborted(aborted) == aborted

\* the backoff does not grow.
Backoff_constant(k) == 1000

\* The delay of setTimeout after the failure of attempt k (from 0).
Backoff(k) == 1000 * 2 ^ k

\* notifications numbered from 0.
onRetry_fromZero(k, e, at) ==
  [attempt |-> k, maxRetries |-> maxRetries, error |-> e, at |-> at]

\* options?.onRetry?.(attempt + 1, maxRetries, String(e)); `at` records how
\* many requests the call had issued when the notification was delivered.
onRetry(k, e, at) ==
  [attempt |-> k + 1, maxRetries |-> maxRetries, error |-> e, at |-> at]

\* The top of the loop body for attempt k: throwIfAborted, whose exception
\* the catch rethrows because the signal is aborted, else the request.
\* `caught` are the errors and `n` the requests of the call so far.
StartAttempt(k, caught, n) ==
  /\ attempt' = k
  /\ IF throwIfAborted(signalAborted)
       THEN /\ call' = "threw"
            /\ thrown' = "AbortError"
            /\ failures' = Append(caught, "AbortError")
            /\ fetches' = n
            /\ issued' = issued
       ELSE /\ call' = "fetching"
            /\ thrown' = "none"
            /\ failures' = caught
            /\ fetches' = n + 1
            /\ issued' = issued + 1

\* Agent.nextCompletion awaits aiClient.chatCompletion: the first call of the
\* run, or the next one after a call returned.
ChatCompletion ==
  /\ \/ call = "idle"
     \/ call = "returned" /\ completions < MaxCompletions
  /\ completions' = completions + 1
  /\ retries' = <<>>
  /\ delays' = <<>>
  /\ StartAttempt(0, <<>>, 0)
  /\ UNCHANGED signalAborted
  /\ UNCHANGED <<agentVars, contextVars, usageVars, taskVars, overlapVars,
                 streamVars, hostVars, sseVars, chunkVars, responseVars,
                 nestVars>>

\* The attempt in flight yields a response: chatCompletion returns it.
AttemptSucceeds ==
  /\ call = "fetching"
  /\ call' = "returned"
  /\ UNCHANGED <<attempt, signalAborted, completions, issued, fetches,
                 failures, retries, delays, thrown>>
  /\ UNCHANGED <<agentVars, contextVars, usageVars, taskVars, overlapVars,
                 streamVars, hostVars, sseVars, chunkVars, responseVars,
                 nestVars>>

\* The attempt in flight throws e (fetch rejects, the status is not ok, the
\* stream has no completed response): the catch rethrows e when the signal
\* is aborted or the attempt was the last one, else it notifies and waits.
\* An AbortError needs the signal raised; with the signal raised the attempt
\* may also have failed with any other error.
AttemptFails(e) ==
  /\ call = "fetching"
  /\ e = "AbortError" => signalAborted
  /\ failures' = Append(failures, e)
  /\ IF signalAborted \/ attempt = maxRetries - 1
       THEN /\ call' = "threw"
            /\ thrown' = e
            /\ UNCHANGED <<retries, delays>>
       ELSE /\ call' = "waiting"
            /\ retries' = Append(retries, onRetry(attempt, e, fetches))
            /\ delays' = Append(delays, Backoff(attempt))
            /\ UNCHANGED thrown
  /\ UNCHANGED <<attempt, signalAborted, completions, issued, fetches>>
  /\ UNCHANGED <<agentVars, contextVars, usageVars, taskVars, overlapVars,
                 streamVars, hostVars, sseVars, chunkVars, responseVars,
                 nestVars>>

\* The backoff timer fires: the loop goes to its next attempt.
BackoffEnds ==
  /\ call = "waiting"
  /\ StartAttempt(attempt + 1, failures, fetches)
  /\ UNCHANGED <<signalAborted, completions, retries, delays>>
  /\ UNCHANGED <<agentVars, contextVars, usageVars, taskVars, overlapVars,
                 streamVars, hostVars, sseVars, chunkVars, responseVars,
                 nestVars>>

\* The caller raises the cancellation signal while the run is going on.
Abort ==
  /\ call \in {"idle", "fetching", "waiting", "returned"}
  /\ ~signalAborted
  /\ signalAborted' = TRUE
  /\ UNCHANGED <<call, attempt, completions, issued, fetches, failures,
                 retries, delays, thrown>>
  /\ UNCHANGED <<agentVars, contextVars, usageVars, taskVars, overlapVars,
                 streamVars, hostVars, sseVars, chunkVars, responseVars,
                 nestVars>>

InitAdapter ==
  /\ variant = "completion_tool"
  /\ onApprovalNeeded = FALSE
  /\ AgentConstructed
  /\ AdapterIdle
  /\ ContextFresh
  /\ UsageFresh
  /\ TaskFresh
  /\ OverlapFresh
  /\ StreamFresh
  /\ HostFresh
  /\ SSEFresh
  /\ ChunksFresh
  /\ ResponseFresh
  /\ NestFresh

NextAdapter ==
  \/ ChatCompletion
  \/ AttemptSucceeds
  \/ \E e \in Errors \cup {"AbortError"} : AttemptFails(e)
  \/ BackoffEnds
  \/ Abort

SpecAdapter == InitAdapter /\ [][NextAdapter]_vars

\* ---- the text chunks of a call
\* The most text deltas the attempts of a run stream.
MaxChunks == 2

\* The `delta.content` of a text delta (never empty: `if (delta.content)`).
Texts == {"a", "b"}

\* parseSSEStream handles a text delta of the attempt in flight:
\* `content += delta.content; onChunk?.(delta.content)`.  The chunk is
\* recorded with the call and the request it belongs to.
TextDelta(t) ==
  /\ call = "fetching"
  /\ Len(chunks) < MaxChunks
  /\ chunks' = Append(chunks, [completion |-> completions,
                               fetch |-> fetches, text |-> t])
  /\ UNCHANGED <<agentVars, adapterVars, contextVars, usageVars, taskVars,
                 overlapVars, streamVars, hostVars, sseVars, responseVars,
                 nestVars>>

\* The texts onChunk was called with during the current call, in order.
Delivered ==
  LET own == SelectSeq(chunks, LAMBDA c : c.completion = completions)
  IN [k \in 1..Len(own) |-> own[k].text]

\* The `content` of the parser of the current call's latest request: what
\* the response carries as message.content when that request succeeds.
Content ==
  LET own == SelectSeq(chunks, LAMBDA c : /\ c.completion = completions
                                          /\ c.fetch = fetches)
  IN [k \in 1..Len(own) |-> own[k].text]

NextChunks ==
  \/ ChatCompletion
  \/ AttemptSucceeds
  \/ \E e \in Errors : AttemptFails(e)
  \/ BackoffEnds
  \/ \E t \in Texts : TextDelta(t)

SpecChunks == InitAdapter /\ [][NextChunks]_vars


\* ======================================================= context manager
\* pruneHistory of useContextManager, applied by the host to the
\* conversation history before each run.  A message is its role and an id
\* that stands for its text; a compaction summary also holds one digest per
\* message it replaces.
\* The longest history, and the most system messages in it.
MaxHistory == 22
MaxSystem == 1

\* MODEL_CONTEXT_WINDOWS: the windows of the models the program lists.
ContextWindows == {128000, 200000, 1000000}

\* Prompt token counts around the two thresholds of a window.
UsageLevels(window) ==
  {(8 * window) \div 10 - 1, (8 * window) \div 10,
   (9 * window) \div 10, (9 * window) \div 10 + 1}

ChatMessage(role, id) == [role |-> role, id |-> id, lines |-> <<>>]

\* The role of the message at position i of a history whose system messages
\* are at the positions `systems`.
RoleAt(i, systems) ==
  IF i \in systems THEN "system"
  ELSE IF i % 3 = 1 THEN "user"
  ELSE IF i % 3 = 2 THEN "assistant"
  ELSE "tool"

\* The histories of length n with at most MaxSystem system messages.
Histories(n) ==
  {[i \in 1..n |-> ChatMessage(RoleAt(i, {p[k] : k \in 1..MaxSystem}), i)] :
     p \in [1..MaxSystem -> 0..n]}

\* `tool_call_id` of a tool message: in the histories enumerated here a tool
\* message answers the one call of the assistant message before it in its
\* turn, and a call has the id of the assistant message that issued it.
toolCallIdOf(message) == message.id - 1

\* summarizeMessage: the digest line of one message (its role or tool call
\* id, and its clipped text).
summarizeMessage(message) == [role |-> message.role, of |-> message.id]

\* buildCompactionSummary: null (here the empty sequence) for no message,
\* else one system message whose content is a header line and one digest
\* line per message.
buildCompactionSummary(msgs) ==
  IF Len(msgs) = 0 THEN <<>>
  ELSE <<[role |-> "system", id |-> 0,
          lines |-> [i \in 1..Len(msgs) |-> summarizeMessage(msgs[i])]]>>

\* history.filter((m) => m.role === "system"), first match only.
systemMessages_first(h) ==
  LET all == SelectSeq(h, LAMBDA m : m.role = "system")
  IN IF all = <<>> THEN <<>> ELSE <<Head(all)>>

\* history.filter((m) => m.role === "system")
systemMessages(h) == SelectSeq(h, LAMBDA m : m.role = "system")

\* history.filter((m) => m.role !== "system")
nonSystem(h) == SelectSeq(h, LAMBDA m : m.role # "system")

\* `latestPrompt < contextWindow * 0.8` is false.  The products of the
\* windows of ContextWindows by 0.8 and by 0.9 are exact in double
\* arithmetic, so the comparisons are those of the integers.
Triggered(prompt, window) == ~(10 * prompt < 8 * window)

\* latestPrompt > contextWindow * 0.9 ? 12 : 20
keepCount(prompt, window) == IF 10 * prompt > 9 * window THEN 12 ELSE 20

\* Array.prototype.slice(-n) for n > 0.
SliceLast(q, n) ==
  IF Len(q) <= n THEN q ELSE SubSeq(q, Len(q) - n + 1, Len(q))

\* the history is rebuilt also when nothing was removed.
pruneHistory_rebuild(h, prompt, window) ==
  IF ~Triggered(prompt, window) THEN h
  ELSE LET kept == SliceLast(nonSystem(h), keepCount(prompt, window))
           removed == SubSeq(nonSystem(h), 1, Len(nonSystem(h)) - Len(kept))
           summary == buildCompactionSummary(removed)
       IN systemMessages(h) \o summary \o kept

pruneHistory(h, prompt, window) ==
  IF ~Triggered(prompt, window) THEN h
  ELSE LET kept == SliceLast(nonSystem(h), keepCount(prompt, window))
           removed == SubSeq(nonSystem(h), 1, Len(nonSystem(h)) - Len(kept))
           summary == buildCompactionSummary(removed)
       IN IF Len(removed) = 0 THEN h
          ELSE systemMessages(h) \o summary \o kept

\* ---- the request an adapter builds from the message list of a run
\* Agent.run: the system prompt (id -1), the conversation history, the
\* prompt of the run.
RunMessages(h) ==
  <<ChatMessage("system", -1)>> \o h \o <<ChatMessage("user", MaxHistory + 1)>>

\* The system part and the message part of the request body.  Claude's
\* transformMessages assigns `systemText = msg.content` at every system
\* message and leaves them out of `messages`; Codex sends the first system
\* message as `instructions` and every system message as a developer item
\* of `input`; Copilot sends the list as it is.
requestBody(adp, msgs) ==
  LET sys == systemMessages(msgs)
  IN IF adp = "claude"
       THEN [system |-> IF sys = <<>> THEN <<>> ELSE <<sys[Len(sys)]>>,
             messages |-> nonSystem(msgs)]
     ELSE IF adp = "codex"
       THEN [system |-> IF sys = <<>> THEN <<>> ELSE <<sys[1]>>,
             messages |-> msgs]
     ELSE [system |-> <<>>, messages |-> msgs]

\* The host prunes the conversation history (App, before creating the Agent).
PruneHistory ==
  /\ input' = history
  /\ history' = pruneHistory(history, latestPrompt, contextWindow)
  /\ pruned' = TRUE
  /\ UNCHANGED <<contextWindow, latestPrompt>>
  /\ UNCHANGED <<agentVars, adapterVars, usageVars, taskVars, overlapVars,
                 streamVars, hostVars, sseVars, chunkVars, responseVars,
                 nestVars>>

\* addUsage(result.usage): the latest prompt token count is replaced.
AddUsage(prompt) ==
  /\ prompt # latestPrompt
  /\ latestPrompt' = prompt
  /\ pruned' = FALSE
  /\ UNCHANGED <<contextWindow, history, input>>
  /\ UNCHANGED <<agentVars, adapterVars, usageVars, taskVars, overlapVars,
                 streamVars, hostVars, sseVars, chunkVars, responseVars,
                 nestVars>>

InitContext ==
  /\ variant = "completion_tool"
  /\ onApprovalNeeded = FALSE
  /\ AgentConstructed
  /\ AdapterIdle
  /\ UsageFresh
  /\ TaskFresh
  /\ OverlapFresh
  /\ StreamFresh
  /\ HostFresh
  /\ SSEFresh
  /\ ChunksFresh
  /\ ResponseFresh
  /\ NestFresh
  /\ contextWindow \in ContextWindows
  /\ latestPrompt \in UsageLevels(contextWindow)
  /\ history \in UNION {Histories(n) : n \in 0..MaxHistory}
  /\ input = <<>>
  /\ pruned = FALSE

NextContext ==
  \/ PruneHistory
  \/ \E prompt \in UsageLevels(contextWindow) : AddUsage(prompt)

SpecContext == InitContext /\ [][NextContext]_vars


\* ======================================================= token accounting
\* The usage of the provider responses of a run is accumulated by the Agent
\* (accumulateUsage) and, when run returns, recorded by the host (addUsage).
\* The most runs of a session, and the most responses of a run.
MaxRuns == 2
MaxResponses == 2

\* response.usage: undefined (the empty sequence), or the prompt size of the
\* request with the tokens of the completion (here always one).
Usages ==
  {<<>>} \cup
  {<<[prompt_tokens |-> p, completion_tokens |-> 1, total_tokens |-> p + 1]>> :
     p \in UsageLevels(DEFAULT_CONTEXT_WINDOW)}

\* Agent.accumulateUsage
accumulateUsage(acc, raw) ==
  IF raw = <<>> THEN acc
  ELSE [promptTokens |-> raw[1].prompt_tokens,
        completionTokens |-> acc.completionTokens + raw[1].completion_tokens,
        totalTokens |-> acc.totalTokens + raw[1].total_tokens]

\* The host submits a prompt: agent.run is called with a fresh totalUsage.
StartRun ==
  /\ ~running
  /\ runs < MaxRuns
  /\ running' = TRUE
  /\ runs' = runs + 1
  /\ runUsage' = NoUsage
  /\ responses' = 0
  /\ UNCHANGED <<totalUsage, lastReported, reported, allRecorded>>
  /\ UNCHANGED <<agentVars, adapterVars, contextVars, taskVars, overlapVars,
                 streamVars, hostVars, sseVars, chunkVars, responseVars,
                 nestVars>>

\* A provider response arrives in the run, with or without usage.
UsageResponse(raw) ==
  /\ running
  /\ responses < MaxResponses
  /\ responses' = responses + 1
  /\ runUsage' = accumulateUsage(runUsage, raw)
  /\ IF raw = <<>>
       THEN UNCHANGED <<lastReported, reported>>
       ELSE /\ lastReported' = raw[1].prompt_tokens
            /\ reported' =
                 [completionTokens |->
                    reported.completionTokens + raw[1].completion_tokens,
                  totalTokens |-> reported.totalTokens + raw[1].total_tokens]
  /\ UNCHANGED <<running, totalUsage, runs, allRecorded>>
  /\ UNCHANGED <<agentVars, adapterVars, contextVars, taskVars, overlapVars,
                 streamVars, hostVars, sseVars, chunkVars, responseVars,
                 nestVars>>

\* run returns its result and the host calls addUsage(result.usage); the
\* result has no latestPromptTokens, so its promptTokens is taken.
RunReturns ==
  /\ running
  /\ responses >= 1
  /\ running' = FALSE
  /\ totalUsage' =
       [promptTokens |-> totalUsage.promptTokens + runUsage.promptTokens,
        completionTokens |->
          totalUsage.completionTokens + runUsage.completionTokens,
        totalTokens |-> totalUsage.totalTokens + runUsage.totalTokens]
  /\ latestPrompt' = runUsage.promptTokens
  /\ pruned' = FALSE
  /\ UNCHANGED <<contextWindow, history, input>>
  /\ UNCHANGED <<runUsage, runs, responses, lastReported, reported,
                 allRecorded>>
  /\ UNCHANGED <<agentVars, adapterVars, taskVars, overlapVars, streamVars,
                 hostVars, sseVars, chunkVars, responseVars, nestVars>>

\* run throws: the host's catch records no usage.
RunThrows ==
  /\ running
  /\ running' = FALSE
  /\ allRecorded' = FALSE
  /\ UNCHANGED <<runUsage, totalUsage, runs, responses, lastReported,
                 reported>>
  /\ UNCHANGED <<agentVars, adapterVars, contextVars, taskVars, overlapVars,
                 streamVars, hostVars, sseVars, chunkVars, responseVars,
                 nestVars>>

InitUsage ==
  /\ variant = "completion_tool"
  /\ onApprovalNeeded = FALSE
  /\ AgentConstructed
  /\ AdapterIdle
  /\ ContextFresh
  /\ UsageFresh
  /\ TaskFresh
  /\ OverlapFresh
  /\ StreamFresh
  /\ HostFresh
  /\ SSEFresh
  /\ ChunksFresh
  /\ ResponseFresh
  /\ NestFresh

NextUsage ==
  \/ StartRun
  \/ \E raw \in Usages : UsageResponse(raw)
  \/ RunReturns
  \/ RunThrows

SpecUsage == InitUsage /\ [][NextUsage]_vars


\* ============================================================ delegation
\* The handler of the `task` tool (tools/task-tool.ts): it resolves the
\* requested names against the registry, constructs an Agent over them and
\* awaits its run.  Entries are identified by their names.
\* The longest `tools` list of a delegation call.
MaxTools == 3
\* The names a `tools` list may hold: registered ones and one that is not.
RequestedNames == {"read", "bash", "task", "no_such_tool"}
\* The `tools` arguments: null, or a list of names.
ToolsArguments ==
  {NullTools} \cup
  {ToolList(l) : l \in UNION {[1..k -> RequestedNames] : k \in 0..MaxTools}}

Names(list) == {list[i] : i \in 1..Len(list)}

\* Lines 66-88 of the handler: the entries of the sub-agent.
resolveEntries(t, allEntries) ==
  IF ~t.isNull /\ Len(t.names) > 0
    THEN {e \in allEntries : e \in Names(t.names)}
    ELSE allEntries

\* Lines 73-81 of the handler: the names console.warn reports.
missingNames(t, allEntries) ==
  IF ~t.isNull /\ Len(t.names) > 0
    THEN {n \in Names(t.names) : n \notin resolveEntries(t, allEntries)}
    ELSE {}

\* The handler up to `new Agent(aiClient, subagentEntries, ...)`.
ResolveTools ==
  /\ ~constructed
  /\ subagentEntries' = resolveEntries(tools, toolHandlers)
  /\ missing' = missingNames(tools, toolHandlers)
  /\ constructed' = TRUE
  /\ UNCHANGED <<subagents, tools>>
  /\ UNCHANGED <<agentVars, adapterVars, contextVars, usageVars, overlapVars,
                 streamVars, hostVars, sseVars, chunkVars, responseVars,
                 nestVars>>

InitTools ==
  /\ variant = "completion_tool"
  /\ onApprovalNeeded = TRUE
  /\ AgentConstructed
  /\ AdapterIdle
  /\ ContextFresh
  /\ UsageFresh
  /\ subagents = [id \in {} |-> <<>>]
  /\ tools \in ToolsArguments
  /\ subagentEntries = {}
  /\ missing = {}
  /\ constructed = FALSE
  /\ OverlapFresh
  /\ StreamFresh
  /\ HostFresh
  /\ SSEFresh
  /\ ChunksFresh
  /\ ResponseFresh
  /\ NestFresh

NextTools == ResolveTools

SpecTools == InitTools /\ [][NextTools]_vars

\* ---- the sub-agent of a delegation call
\* The argument text of the delegation calls the backend emits, named by
\* its `tools` field.
TaskArguments == {"tools_bash"}

\* JSON.parse of an argument text, as far as `tools` goes.
parseTools(arguments) ==
  IF arguments = "tools_bash" THEN ToolList(<<"bash">>) ELSE NullTools

\* The calls the parent's backend emits: delegation calls, a call to a
\* safe-listed tool and the completion call.
DelegationCalls ==
  {ToolCall("task", a) : a \in TaskArguments}
    \cup {ToolCall("read", "json"), ToolCall("attempt_completion", "json")}

\* The largest number of delegation calls in one assistant message.
MaxDelegations == 1

\* The assistant messages of the parent's backend.
DelegationLists ==
  {l \in CallLists(DelegationCalls) :
     Cardinality({i \in 1..Len(l) : l[i].name = "task"}) <= MaxDelegations}

\* The options the handler constructs the sub-agent with: the system prompt
\* only, so neither an approval source nor a signal.
SubagentOptions == [onApprovalNeeded |-> FALSE, signal |-> FALSE]

\* The names the sub-agent's backend calls: those of its registry, and the
\* completion call.
SubagentCalls(c) ==
  resolveEntries(parseTools(c.arguments), toolHandlers)
    \cup {"attempt_completion"}

\* The sub-agent when its run has issued its first completion request:
\*   pc          "awaitCompletion" | "executing" | "done" | "threw"
\*   iterations  the local `iterations` of its run, which is also the number
\*               of completion requests it has issued
\*   answer      result.answer of its run ("none" before it returns)
\*   call        <<>> or the tool call of its latest assistant message
NewSubagent ==
  [pc |-> "awaitCompletion", iterations |-> 1, answer |-> "none",
   call |-> <<>>]

\* A sub-agent whose run has returned or rejected: its outcome is all that
\* is left of it.
Finished(outcome, answer) ==
  [pc |-> outcome, iterations |-> 0, answer |-> answer, call |-> <<>>]

\* Call i of the batch is a delegation call whose handler is awaited.
Delegated(i) ==
  /\ pc = "executing"
  /\ i \in 1..Len(batch)
  /\ batch[i].name = "task"
  /\ batch[i].status = "running"

\* The sub-agent of a delegation call whose handler was invoked.
SubagentOf(c) ==
  IF c.id \in DOMAIN subagents THEN subagents[c.id] ELSE NewSubagent

\* options.signal of the sub-agent's completion requests is aborted.
SubagentSignalAborted == SubagentOptions.signal /\ signalAborted

SetSubagent(id, a) ==
  subagents' = [k \in DOMAIN subagents \cup {id} |->
                  IF k = id THEN a ELSE subagents[k]]

\* agent.run of the sub-agent returns: the handler returns {result: answer,
\* metadata} and the parent's handleToolCall wraps it as {result}.
SubagentReturns(i, a, answer) ==
  /\ HandlerSettles(i, TRUE)
  /\ SetSubagent(batch[i].id, Finished("done", answer))
  /\ UNCHANGED <<tools, subagentEntries, missing, constructed>>
  /\ UNCHANGED <<adapterVars, contextVars, usageVars, overlapVars, streamVars,
                 hostVars, sseVars, chunkVars, responseVars, nestVars>>

\* the rejection of the sub-agent's run is not caught by the parent.
SubagentRejects_uncaught(i, a) ==
  /\ pc' = "threw"
  /\ SetSubagent(batch[i].id, Finished("threw", "none"))
  /\ UNCHANGED <<variant, onApprovalNeeded, iterations, messages, sent,
                 requests, batch, completionResult, result, lastResponse,
                 onlyToolCalls, nextId, outOfOrder>>
  /\ UNCHANGED gateVars
  /\ UNCHANGED <<tools, subagentEntries, missing, constructed>>
  /\ UNCHANGED <<adapterVars, contextVars, usageVars, overlapVars, streamVars,
                 hostVars, sseVars, chunkVars, responseVars, nestVars>>

\* agent.run of the sub-agent rejects: the handler has no try/catch, the
\* parent's handleToolCall catches and returns {error: String(e)}.
SubagentRejects(i, a) ==
  /\ HandlerSettles(i, FALSE)
  /\ SetSubagent(batch[i].id, Finished("threw", "none"))
  /\ UNCHANGED <<tools, subagentEntries, missing, constructed>>
  /\ UNCHANGED <<adapterVars, contextVars, usageVars, overlapVars, streamVars,
                 hostVars, sseVars, chunkVars, responseVars, nestVars>>

\* The sub-agent goes on: nothing of the parent changes.
SubagentContinues(i, a) ==
  /\ SetSubagent(batch[i].id, a)
  /\ UNCHANGED <<tools, subagentEntries, missing, constructed>>
  /\ UNCHANGED <<agentVars, adapterVars, contextVars, usageVars, overlapVars,
                 streamVars, hostVars, sseVars, chunkVars, responseVars,
                 nestVars>>

\* The sub-agent's completion request is in flight.
SubagentAwaits(i) ==
  /\ Delegated(i)
  /\ SubagentOf(batch[i]).pc = "awaitCompletion"

\* The request rejects: the provider failed on every attempt, or the
\* sub-agent's signal is aborted.
SubCompletionThrows(i) ==
  /\ SubagentAwaits(i)
  /\ SubagentRejects(i, SubagentOf(batch[i]))

\* The response has an empty choices array.
SubCompletionEmpty(i) ==
  /\ SubagentAwaits(i)
  /\ ~throwIfAborted(SubagentSignalAborted)
  /\ SubagentReturns(i, SubagentOf(batch[i]), "no_response")

\* The response carries text and no tool call.
SubCompletionText(i) ==
  /\ SubagentAwaits(i)
  /\ ~throwIfAborted(SubagentSignalAborted)
  /\ SubagentReturns(i, SubagentOf(batch[i]), "text")

\* The next step of the sub-agent's loop after executeToolCalls returned
\* without a completion result: the next completion request, which rejects
\* at once when the sub-agent's signal is aborted, or the max-iterations
\* result.
SubagentLoops(i, a) ==
  IF BudgetLeft(a.iterations)
    THEN IF throwIfAborted(SubagentSignalAborted)
           THEN SubagentRejects(i, [a EXCEPT !.iterations = @ + 1])
           ELSE SubagentContinues(i, [a EXCEPT !.pc = "awaitCompletion",
                                               !.iterations = @ + 1])
    ELSE SubagentReturns(i, a, "max_iterations")

\* The response carries a call to `name`: the sub-agent's executeToolCalls
\* starts it.  The completion call makes the run return its result; a call
\* that waits for a decision or for its handler leaves the run waiting; a
\* call that settled at once lets the loop go on.
SubCompletionToolCall(i, name) ==
  /\ SubagentAwaits(i)
  /\ ~throwIfAborted(SubagentSignalAborted)
  /\ name \in SubagentCalls(batch[i])
  /\ LET a == SubagentOf(batch[i])
         c == StartCall("completion_tool", SubagentOptions.onApprovalNeeded,
                        {}, {}, NewCall(0, ToolCall(name, "json")))
         b == [a EXCEPT !.call = <<c>>]
     IN IF name = "attempt_completion" THEN SubagentReturns(i, b, "completion")
        ELSE IF c.status = "settled" THEN SubagentLoops(i, b)
        ELSE SubagentContinues(i, [b EXCEPT !.pc = "executing"])

\* The handler of the sub-agent's call returns or throws: the sub-agent's
\* handleToolCall wraps the outcome and its loop goes on.
SubHandlerReturns(i, ok) ==
  /\ Delegated(i)
  /\ LET a == SubagentOf(batch[i]) IN
     /\ a.pc = "executing"
     /\ a.call[1].status = "running"
     /\ LET c == [a.call[1] EXCEPT
                   !.status = "settled",
                   !.content = IF ok THEN "result" ELSE "error",
                   !.events = Append(@, "completed")]
        IN SubagentLoops(i, [a EXCEPT !.call = <<c>>])

\* executeToolCalls of the parent returns to run; the sub-agents of the
\* batch are no longer referenced.
TaskToolCallsReturn ==
  /\ AfterToolCalls
  /\ subagents' = [id \in {} |-> <<>>]
  /\ UNCHANGED <<tools, subagentEntries, missing, constructed>>
  /\ UNCHANGED <<adapterVars, contextVars, usageVars, overlapVars, streamVars,
                 hostVars, sseVars, chunkVars, responseVars, nestVars>>

\* A handler of the parent's registry other than the delegation handler
\* settles.
ToolReturns(i, ok) ==
  /\ i \in 1..Len(batch)
  /\ batch[i].name # "task"
  /\ HandlerReturns(i, ok)

\* The parent's completion request rejects because its signal is aborted.
RunAborts ==
  /\ throwIfAborted(signalAborted)
  /\ CompletionAborts

\* The parent's backend answers with tool calls.
TaskToolCalls(calls) ==
  /\ ~throwIfAborted(signalAborted)
  /\ CompletionToolCalls(calls)

\* The host's Agent: the completion-tool loop with an approval source.
InitTask ==
  /\ variant = "completion_tool"
  /\ onApprovalNeeded = TRUE
  /\ AgentConstructed
  /\ AdapterIdle
  /\ ContextFresh
  /\ UsageFresh
  /\ TaskFresh
  /\ OverlapFresh
  /\ StreamFresh
  /\ HostFresh
  /\ SSEFresh
  /\ ChunksFresh
  /\ ResponseFresh
  /\ NestFresh

NextTask ==
  \/ Run
  \/ \E calls \in DelegationLists : TaskToolCalls(calls)
  \/ \E decision \in ApprovalDecision : Decide(decision)
  \/ \E i \in 1..MaxCalls, ok \in BOOLEAN : ToolReturns(i, ok)
  \/ \E i \in 1..MaxCalls : SubCompletionThrows(i)
  \/ \E i \in 1..MaxCalls : SubCompletionEmpty(i)
  \/ \E i \in 1..MaxCalls : SubCompletionText(i)
  \/ \E i \in 1..MaxCalls, name \in ToolNames : SubCompletionToolCall(i, name)
  \/ \E i \in 1..MaxCalls, ok \in BOOLEAN : SubHandlerReturns(i, ok)
  \/ TaskToolCallsReturn

SpecTask == InitTask /\ [][NextTask]_vars

\* The same, with a caller that may raise the signal it gave the run.
NextCancel ==
  \/ NextTask
  \/ Abort
  \/ RunAborts

SpecCancel == InitTask /\ [][NextCancel]_vars

\* ================================================== overlapping run calls
\* Several run calls on one Agent instance (completion-tool loop).  Every
\* run reads and writes the field this.messages; a message carries the run
\* call that built it (0 for the system prompt).
OwnedMsg(owner, role) == [owner |-> owner, role |-> role]

SetRunCall(r, c) == runCalls' = [runCalls EXCEPT ![r] = c]

\* nextCompletion of run call r: chatCompletion(this.messages, ...).
RequestOf(r, its, msgs) ==
  /\ sharedMessages' = msgs
  /\ SetRunCall(r, [pc |-> "awaitCompletion", iterations |-> its,
                    sent |-> msgs])

\* Run call r leaves the loop or returns from it.
ReturnOf(r, msgs) ==
  /\ sharedMessages' = msgs
  /\ SetRunCall(r, [runCalls[r] EXCEPT !.pc = "done"])

\* run(prompt) up to its first await: this.messages is assigned a new list
\* and the first completion is requested.
RunCall(r) ==
  /\ runCalls[r].pc = "idle"
  /\ \A q \in 1..(r - 1) : runCalls[q].pc # "idle"
  /\ LET seed == <<OwnedMsg(0, "system"), OwnedMsg(r, "user")>> IN
     IF BudgetLeft(0) THEN RequestOf(r, 1, seed) ELSE ReturnOf(r, seed)
  /\ UNCHANGED <<agentVars, adapterVars, contextVars, usageVars, taskVars,
                 streamVars, hostVars, sseVars, chunkVars, responseVars,
                 nestVars>>

\* The response of run call r carries no tool call: run returns its text.
RunCallText(r) ==
  /\ runCalls[r].pc = "awaitCompletion"
  /\ ReturnOf(r, sharedMessages)
  /\ UNCHANGED <<agentVars, adapterVars, contextVars, usageVars, taskVars,
                 streamVars, hostVars, sseVars, chunkVars, responseVars,
                 nestVars>>

\* The response of run call r calls attempt_completion: executeToolCalls
\* pushes the assistant message and the tool result, and run returns.
RunCallCompletes(r) ==
  /\ runCalls[r].pc = "awaitCompletion"
  /\ ReturnOf(r, sharedMessages \o
                   <<OwnedMsg(r, "assistant"), OwnedMsg(r, "tool")>>)
  /\ UNCHANGED <<agentVars, adapterVars, contextVars, usageVars, taskVars,
                 streamVars, hostVars, sseVars, chunkVars, responseVars,
                 nestVars>>

\* The response of run call r calls a tool: executeToolCalls pushes the
\* assistant message on this.messages and awaits the handler.
RunCallToolCall(r) ==
  /\ runCalls[r].pc = "awaitCompletion"
  /\ sharedMessages' = Append(sharedMessages, OwnedMsg(r, "assistant"))
  /\ SetRunCall(r, [runCalls[r] EXCEPT !.pc = "executing"])
  /\ UNCHANGED <<agentVars, adapterVars, contextVars, usageVars, taskVars,
                 streamVars, hostVars, sseVars, chunkVars, responseVars,
                 nestVars>>

\* The handler of run call r settles: the tool message is pushed on
\* this.messages and the loop goes on.
RunCallHandlerReturns(r) ==
  /\ runCalls[r].pc = "executing"
  /\ LET after == Append(sharedMessages, OwnedMsg(r, "tool"))
         its == runCalls[r].iterations
     IN IF BudgetLeft(its) THEN RequestOf(r, its + 1, after)
                           ELSE ReturnOf(r, after)
  /\ UNCHANGED <<agentVars, adapterVars, contextVars, usageVars, taskVars,
                 streamVars, hostVars, sseVars, chunkVars, responseVars,
                 nestVars>>

InitOverlap ==
  /\ variant = "completion_tool"
  /\ onApprovalNeeded = FALSE
  /\ AgentConstructed
  /\ AdapterIdle
  /\ ContextFresh
  /\ UsageFresh
  /\ TaskFresh
  /\ OverlapFresh
  /\ StreamFresh
  /\ HostFresh
  /\ SSEFresh
  /\ ChunksFresh
  /\ ResponseFresh
  /\ NestFresh

NextOverlap ==
  \/ \E r \in 1..MaxRunCalls : RunCall(r)
  \/ \E r \in 1..MaxRunCalls : RunCallText(r)
  \/ \E r \in 1..MaxRunCalls : RunCallCompletes(r)
  \/ \E r \in 1..MaxRunCalls : RunCallToolCall(r)
  \/ \E r \in 1..MaxRunCalls : RunCallHandlerReturns(r)

SpecOverlap == InitOverlap /\ [][NextOverlap]_vars

\* ===================================================== streamed responses
\* parseSSEStream of the Copilot adapter, as far as the tool calls of the
\* response go.  Strings are sequences of characters: "" is <<>>.
\* The longest stream of tool-call deltas.
MaxDeltas == 3
\* The largest tool-call index of a stream.
MaxIndex == 1

\* The argument fragments a delta may carry.
Fragments == {<<>>, <<"a">>, <<"b">>}

\* The id and the name the provider announces for the call of an index.
CallId(idx) == <<"call", idx>>
CallName(idx) == <<"tool", idx>>

\* What arrives: an index and an argument fragment per delta.
Arrivals ==
  UNION {[1..n -> [index : 0..MaxIndex, arguments : Fragments]] :
           n \in 0..MaxDeltas}

\* The tool-call deltas of a stream: the first delta of an index announces
\* the id and the name of its call, the later ones carry arguments only.
Deltas(arrivals) ==
  [k \in 1..Len(arrivals) |->
     LET idx == arrivals[k].index
         first == \A j \in 1..(k - 1) : arrivals[j].index # idx
     IN [index |-> idx,
         id |-> IF first THEN CallId(idx) ELSE <<>>,
         name |-> IF first THEN CallName(idx) ELSE <<>>,
         arguments |-> arrivals[k].arguments]]

\* the arguments of a delta replace the ones accumulated so far.
accumulate_overwrite(calls, tc) ==
  LET idx == tc.index
      old == IF idx \in DOMAIN calls
               THEN calls[idx]
               ELSE [id |-> tc.id, name |-> tc.name, arguments |-> <<>>]
      new == [id |-> IF tc.id # <<>> THEN tc.id ELSE old.id,
              name |-> IF tc.name # <<>> THEN tc.name ELSE old.name,
              arguments |-> IF tc.arguments # <<>> THEN tc.arguments
                                                   ELSE old.arguments]
  IN [k \in DOMAIN calls \cup {idx} |-> IF k = idx THEN new ELSE calls[k]]

\* The body of `for (const tc of delta.tool_calls)`: the entry of the
\* delta's index is created if absent, id and name are set when the delta
\* carries them, and the arguments are appended.
accumulate(calls, tc) ==
  LET idx == tc.index
      old == IF idx \in DOMAIN calls
               THEN calls[idx]
               ELSE [id |-> tc.id, name |-> tc.name, arguments |-> <<>>]
      new == [id |-> IF tc.id # <<>> THEN tc.id ELSE old.id,
              name |-> IF tc.name # <<>> THEN tc.name ELSE old.name,
              arguments |-> IF tc.arguments # <<>>
                              THEN old.arguments \o tc.arguments
                              ELSE old.arguments]
  IN [k \in DOMAIN calls \cup {idx} |-> IF k = idx THEN new ELSE calls[k]]

\* Object.values of an object with integer keys: the values by ascending
\* key.
RECURSIVE ObjectValues(_)
ObjectValues(obj) ==
  IF DOMAIN obj = {} THEN <<>>
  ELSE LET least == CHOOSE k \in DOMAIN obj : \A j \in DOMAIN obj : k <= j
       IN <<obj[least]>> \o
            ObjectValues([k \in DOMAIN obj \ {least} |-> obj[k]])

\* One data line with a tool-call delta is parsed.
ParseDelta ==
  /\ ~streamEnded
  /\ consumed < Len(deltas)
  /\ consumed' = consumed + 1
  /\ toolCalls' = accumulate(toolCalls, deltas[consumed + 1])
  /\ UNCHANGED <<deltas, assembledToolCalls, streamEnded>>
  /\ UNCHANGED <<agentVars, adapterVars, contextVars, usageVars, taskVars,
                 overlapVars, hostVars, sseVars, chunkVars, responseVars,
                 nestVars>>

\* reader.read() returns done: the calls are assembled.
StreamEnds ==
  /\ ~streamEnded
  /\ consumed = Len(deltas)
  /\ streamEnded' = TRUE
  /\ assembledToolCalls' = ObjectValues(toolCalls)
  /\ UNCHANGED <<deltas, consumed, toolCalls>>
  /\ UNCHANGED <<agentVars, adapterVars, contextVars, usageVars, taskVars,
                 overlapVars, hostVars, sseVars, chunkVars, responseVars,
                 nestVars>>

InitStream ==
  /\ variant = "completion_tool"
  /\ onApprovalNeeded = FALSE
  /\ AgentConstructed
  /\ AdapterIdle
  /\ ContextFresh
  /\ UsageFresh
  /\ TaskFresh
  /\ OverlapFresh
  /\ deltas \in {Deltas(a) : a \in Arrivals}
  /\ consumed = 0
  /\ toolCalls = [idx \in {} |-> <<>>]
  /\ assembledToolCalls = <<>>
  /\ streamEnded = FALSE
  /\ HostFresh
  /\ SSEFresh
  /\ ChunksFresh
  /\ ResponseFresh
  /\ NestFresh

NextStream ==
  \/ ParseDelta
  \/ StreamEnds

SpecStream == InitStream /\ [][NextStream]_vars

\* =================================================================== host
\* The App component (unnamed/part_005) around useApproval: the `mode` state
\* decides which one of the text input, the command palette, a picker or
\* the approval prompt is rendered.
\* The approval requests the runs of a session make.
MaxRequests == 3

\* The tool names the requests are for.
RequestNames == {"bash", "web_fetch"}

\* The COMMANDS of the palette whose runCommand branch awaits before it
\* calls setMode.
AsyncCommands == {"/models", "/sessions"}
COMMANDS == {"/models", "/provider", "/login", "/status", "/sessions"}

ApprovalMode(id) == [kind |-> "approval", id |-> id]
\* The mode after a command's awaited call has returned a non-empty list.
PickerOf(cmd) ==
  IF cmd = "/models" THEN [kind |-> "model", id |-> 0]
                     ELSE [kind |-> "sessions", id |-> 0]

\* handleSubmit with a prompt: the guard `!trimmed || loading`, then
\* setLoading(true) and agent.run is awaited.  The text input is rendered in
\* chat mode only.
Submit ==
  /\ mode.kind = "chat"
  /\ ~loading
  /\ ~running
  /\ running' = TRUE
  /\ loading' = TRUE
  /\ UNCHANGED <<mode, commands, approvalRequests>>
  /\ UNCHANGED <<runUsage, totalUsage, runs, responses, lastReported,
                 reported, allRecorded>>
  /\ UNCHANGED <<agentVars, adapterVars, contextVars, taskVars, overlapVars,
                 streamVars, sseVars, chunkVars, responseVars, nestVars>>

\* The run calls handleApprovalNeeded for a tool call: a cached name is
\* answered at once; otherwise the request is chained on approvalQueueRef
\* and its prompt is shown (setMode approval) once the chain reaches it.
ApprovalNeeded(name) ==
  /\ running
  /\ Len(approvalRequests) < MaxRequests
  /\ approvalRequests' = Append(approvalRequests, name)
  /\ IF handleApprovalNeeded(name, sessionAllowed, sessionDenied) = "queued"
       THEN LET d == Drain(Append(approvalQueue, Len(approvalRequests) + 1),
                           presented, promptLog)
            IN /\ approvalQueue' = d.queue
               /\ presented' = d.presented
               /\ promptLog' = d.log
               /\ mode' = IF d.presented # presented
                            THEN ApprovalMode(d.presented)
                            ELSE mode
       ELSE UNCHANGED <<approvalQueue, presented, promptLog, mode>>
  /\ UNCHANGED <<sessionAllowed, sessionDenied, resolved>>
  /\ UNCHANGED <<variant, onApprovalNeeded, pc, iterations, messages, sent,
                 requests, batch, completionResult, result, lastResponse,
                 onlyToolCalls, nextId, outOfOrder>>
  /\ UNCHANGED <<loading, commands>>
  /\ UNCHANGED <<adapterVars, contextVars, usageVars, taskVars, overlapVars,
                 streamVars, sseVars, chunkVars, responseVars, nestVars>>

\* ApprovalPrompt's onDecide, or escape in approval mode (deny_once):
\* mode.resolve(decision), then setMode chat; the `done` of the resolve
\* closure lets the chain show the next request's prompt.
HostDecide(decision) ==
  /\ mode.kind = "approval"
  /\ LET name == approvalRequests[mode.id]
         d == Drain(approvalQueue, 0, promptLog)
     IN /\ sessionAllowed' = IF decision = "allow_always"
                               THEN sessionAllowed \cup {name}
                               ELSE sessionAllowed
        /\ sessionDenied' = IF decision = "deny_always"
                              THEN sessionDenied \cup {name}
                              ELSE sessionDenied
        /\ resolved' = resolved \cup {mode.id}
        /\ approvalQueue' = d.queue
        /\ presented' = d.presented
        /\ promptLog' = d.log
        /\ mode' = IF d.presented # 0 THEN ApprovalMode(d.presented)
                                      ELSE Chat
  /\ UNCHANGED <<variant, onApprovalNeeded, pc, iterations, messages, sent,
                 requests, batch, completionResult, result, lastResponse,
                 onlyToolCalls, nextId, outOfOrder>>
  /\ UNCHANGED <<loading, commands, approvalRequests>>
  /\ UNCHANGED <<adapterVars, contextVars, usageVars, taskVars, overlapVars,
                 streamVars, sseVars, chunkVars, responseVars, nestVars>>

\* agent.run returns or throws once no approval of the run is outstanding:
\* setLoading(false).
HostRunEnds ==
  /\ running
  /\ presented = 0
  /\ approvalQueue = <<>>
  /\ running' = FALSE
  /\ loading' = FALSE
  /\ UNCHANGED <<mode, commands, approvalRequests>>
  /\ UNCHANGED <<runUsage, totalUsage, runs, responses, lastReported,
                 reported, allRecorded>>
  /\ UNCHANGED <<agentVars, adapterVars, contextVars, taskVars, overlapVars,
                 streamVars, sseVars, chunkVars, responseVars, nestVars>>

\* handleInputChange: a value starting with "/" typed into the text input.
OpenPalette ==
  /\ mode.kind = "chat"
  /\ mode' = [kind |-> "command", id |-> 0]
  /\ UNCHANGED <<loading, commands, approvalRequests>>
  /\ UNCHANGED <<agentVars, adapterVars, contextVars, usageVars, taskVars,
                 overlapVars, streamVars, sseVars, chunkVars, responseVars,
                 nestVars>>

\* runCommand up to its first await, after the caller's setMode chat.
StartCommand(cmd) ==
  /\ mode' = IF cmd = "/provider" THEN [kind |-> "provider", id |-> 0]
                                  ELSE Chat
  /\ commands' = IF cmd \in AsyncCommands THEN commands \cup {cmd}
                                          ELSE commands
  /\ loading' = IF cmd = "/models" THEN TRUE ELSE loading

\* CommandPalette's onSelect: setMode chat, runCommand(cmd).
SelectCommand(cmd) ==
  /\ mode.kind = "command"
  /\ StartCommand(cmd)
  /\ UNCHANGED approvalRequests
  /\ UNCHANGED <<agentVars, adapterVars, contextVars, usageVars, taskVars,
                 overlapVars, streamVars, sseVars, chunkVars, responseVars,
                 nestVars>>

\* handleSubmit with a slash command typed in full: the same, behind the
\* guard on `loading`.
SubmitCommand(cmd) ==
  /\ mode.kind = "chat"
  /\ ~loading
  /\ StartCommand(cmd)
  /\ UNCHANGED approvalRequests
  /\ UNCHANGED <<agentVars, adapterVars, contextVars, usageVars, taskVars,
                 overlapVars, streamVars, sseVars, chunkVars, responseVars,
                 nestVars>>

\* The await of runCommand returns (getModels, listSessions): setMode to the
\* picker unless the list is empty; "/models" ends with setLoading(false).
CommandFinishes(cmd, found) ==
  /\ cmd \in commands
  /\ commands' = commands \ {cmd}
  /\ mode' = IF found THEN PickerOf(cmd) ELSE mode
  /\ loading' = IF cmd = "/models" THEN FALSE ELSE loading
  /\ UNCHANGED approvalRequests
  /\ UNCHANGED <<agentVars, adapterVars, contextVars, usageVars, taskVars,
                 overlapVars, streamVars, sseVars, chunkVars, responseVars,
                 nestVars>>

\* Escape in the palette or a picker, or an item of the model or provider
\* picker selected: setMode chat.
ClosePicker ==
  /\ mode.kind \in {"command", "model", "provider", "sessions"}
  /\ mode' = Chat
  /\ UNCHANGED <<loading, commands, approvalRequests>>
  /\ UNCHANGED <<agentVars, adapterVars, contextVars, usageVars, taskVars,
                 overlapVars, streamVars, sseVars, chunkVars, responseVars,
                 nestVars>>

\* SessionsPicker's onSelect with a session: clearApprovalCache, setMode
\* chat.
ResumeSession ==
  /\ mode.kind = "sessions"
  /\ mode' = Chat
  /\ sessionAllowed' = {}
  /\ sessionDenied' = {}
  /\ UNCHANGED <<approvalQueue, presented, promptLog, resolved>>
  /\ UNCHANGED <<variant, onApprovalNeeded, pc, iterations, messages, sent,
                 requests, batch, completionResult, result, lastResponse,
                 onlyToolCalls, nextId, outOfOrder>>
  /\ UNCHANGED <<loading, commands, approvalRequests>>
  /\ UNCHANGED <<adapterVars, contextVars, usageVars, taskVars, overlapVars,
                 streamVars, sseVars, chunkVars, responseVars, nestVars>>

InitHost ==
  /\ variant = "completion_tool"
  /\ onApprovalNeeded = TRUE
  /\ AgentConstructed
  /\ AdapterIdle
  /\ ContextFresh
  /\ UsageFresh
  /\ TaskFresh
  /\ OverlapFresh
  /\ StreamFresh
  /\ HostFresh
  /\ SSEFresh
  /\ ChunksFresh
  /\ ResponseFresh
  /\ NestFresh

NextHost ==
  \/ Submit
  \/ \E name \in RequestNames : ApprovalNeeded(name)
  \/ \E decision \in ApprovalDecision : HostDecide(decision)
  \/ HostRunEnds
  \/ OpenPalette
  \/ \E cmd \in COMMANDS : SelectCommand(cmd)
  \/ \E cmd \in COMMANDS : SubmitCommand(cmd)
  \/ \E cmd \in AsyncCommands, found \in BOOLEAN : CommandFinishes(cmd, found)
  \/ ClosePicker
  \/ ResumeSession

SpecHost == InitHost /\ [][NextHost]_vars

\* The human answers each prompt that is displayed.
SpecHostAnswered ==
  SpecHost /\ WF_vars(\E decision \in ApprovalDecision : HostDecide(decision))

\* ========================================================== event streams
\* The read loop the three parseSSEStream methods share: the bytes of each
\* read are decoded to text, the text is appended to `buffer`, the buffer is
\* split at line feeds, the piece after the last line feed is kept for the
\* next read, and each complete line is decoded to an event.
\* The longest response body, in bytes.
MaxBytes == 4

Adapters == {"codex", "copilot", "claude"}

\* The bytes of a body: the prefix "data: " (one byte here), a payload
\* byte, the payload "[DONE]" (one byte here), the line feed, and the lead
\* and the continuation byte of a two-byte character.
Bytes == {"d", "x", "!", "LF", "hi", "lo"}

Bodies == UNION {[1..n -> Bytes] : n \in 0..MaxBytes}

\* TextDecoder.decode(value, { stream: true }): a lead byte at the end of
\* the input is held back until the next call; a lead byte without its
\* continuation and a continuation without its lead decode to U+FFFD.
RECURSIVE decode(_, _)
decode(held, value) ==
  IF value = <<>> THEN [text |-> <<>>, held |-> held]
  ELSE LET b == Head(value) IN
       IF held # <<>>
         THEN IF b = "lo"
                THEN LET r == decode(<<>>, Tail(value))
                     IN [r EXCEPT !.text = <<"e2">> \o @]
                ELSE LET r == decode(<<>>, value)
                     IN [r EXCEPT !.text = <<"FFFD">> \o @]
         ELSE IF b = "hi" THEN decode(<<"hi">>, Tail(value))
         ELSE LET r == decode(<<>>, Tail(value))
              IN [r EXCEPT !.text = <<IF b = "lo" THEN "FFFD" ELSE b>> \o @]

\* buffer.split("\n"): the pieces between the line feeds, one more than
\* there are line feeds.
RECURSIVE split(_)
split(str) ==
  IF \A k \in 1..Len(str) : str[k] # "LF" THEN <<str>>
  ELSE LET at == CHOOSE k \in 1..Len(str) :
                   str[k] = "LF" /\ \A j \in 1..(k - 1) : str[j] # "LF"
       IN <<SubSeq(str, 1, at - 1)>> \o split(SubSeq(str, at + 1, Len(str)))

\* the piece after the last line feed is thrown away.
popped_dropped(pieces) == <<>>

\* `buffer = lines.pop() ?? ""`.
popped(pieces) == pieces[Len(pieces)]

\* JSON.parse(data) succeeds: the payloads that are events.
IsEvent(data) ==
  /\ data # <<>>
  /\ \A k \in 1..Len(data) : data[k] \in {"x", "e2"}

\* The body of `for (const line of lines)`: lines without the prefix are
\* skipped; "[DONE]" ends the Codex loop and is skipped by the others; a
\* payload that does not parse is skipped; an event is handled.
RECURSIVE handleLines(_, _, _)
handleLines(adp, lines, st) ==
  IF lines = <<>> THEN st
  ELSE LET line == Head(lines)
           data == Tail(line)
       IN IF line = <<>> \/ line[1] # "d"
            THEN handleLines(adp, Tail(lines), st)
          ELSE IF data = <<"!">> /\ adp = "codex"
            THEN [st EXCEPT !.streamDone = TRUE]
          ELSE IF IsEvent(data)
            THEN handleLines(adp, Tail(lines),
                             [st EXCEPT !.decoded = Append(@, data)])
          ELSE handleLines(adp, Tail(lines), st)

\* reader.read() returns the next n bytes of the body: one pass of the
\* while loop.
ReadChunk(n) ==
  /\ ~readerDone
  /\ ~streamDone
  /\ readPos + n <= Len(body)
  /\ LET value == SubSeq(body, readPos + 1, readPos + n)
         dec == decode(heldBytes, value)
         pieces == split(buffer \o dec.text)
         lines == SubSeq(pieces, 1, Len(pieces) - 1)
         st == handleLines(sseAdapter, lines,
                           [decoded |-> decoded, streamDone |-> FALSE])
     IN /\ readPos' = readPos + n
        /\ heldBytes' = dec.held
        /\ buffer' = popped(pieces)
        /\ decoded' = st.decoded
        /\ streamDone' = st.streamDone
        /\ lineSplit' = (lineSplit \/ (buffer # <<>> /\ Len(pieces) > 1
                                       /\ Len(st.decoded) > Len(decoded)))
  /\ UNCHANGED <<sseAdapter, body, readerDone>>
  /\ UNCHANGED <<agentVars, adapterVars, contextVars, usageVars, taskVars,
                 overlapVars, streamVars, hostVars, chunkVars, responseVars,
                 nestVars>>

\* reader.read() returns done.
ReadDone ==
  /\ ~readerDone
  /\ ~streamDone
  /\ readPos = Len(body)
  /\ readerDone' = TRUE
  /\ UNCHANGED <<sseAdapter, body, readPos, heldBytes, buffer, decoded,
                 streamDone, lineSplit>>
  /\ UNCHANGED <<agentVars, adapterVars, contextVars, usageVars, taskVars,
                 overlapVars, streamVars, hostVars, chunkVars, responseVars,
                 nestVars>>

InitSSE ==
  /\ variant = "completion_tool"
  /\ onApprovalNeeded = FALSE
  /\ AgentConstructed
  /\ AdapterIdle
  /\ ContextFresh
  /\ UsageFresh
  /\ TaskFresh
  /\ OverlapFresh
  /\ StreamFresh
  /\ HostFresh
  /\ ChunksFresh
  /\ ResponseFresh
  /\ NestFresh
  /\ sseAdapter \in Adapters
  /\ body \in Bodies
  /\ readPos = 0
  /\ heldBytes = <<>>
  /\ buffer = <<>>
  /\ decoded = <<>>
  /\ streamDone = FALSE
  /\ readerDone = FALSE
  /\ lineSplit = FALSE

NextSSE ==
  \/ \E n \in 1..MaxBytes : ReadChunk(n)
  \/ ReadDone

SpecSSE == InitSSE /\ [][NextSSE]_vars

\* ============================================================== responses
\* The ChatResponse each adapter builds from what the provider streamed.
\* The longest stream, in events that matter to the response.
MaxEvents == 2

\* The finish_reason values a provider sends.
FinishReasons == {"stop", "tool_calls", "length"}

\* What an event of the provider contributes: whether it carries a tool
\* call (a function_call item, a tool_use block, a tool_calls delta of a new
\* index) and the finish_reason of its choice (<<>>: none).
ProviderEvents ==
  [tool_call : BOOLEAN, finish_reason : {<<>>} \cup {<<f>> : f \in FinishReasons}]

ProviderStreams == UNION {[1..n -> ProviderEvents] : n \in 0..MaxEvents}

\* The number of tool calls the parser assembles.
AssembledCalls(evs) == Cardinality({k \in 1..Len(evs) : evs[k].tool_call})

\* Copilot's `finishReason`: "stop" unless an event's choice has a
\* finish_reason; the latest one wins.
RECURSIVE finishReasonOf(_, _)
finishReasonOf(evs, sofar) ==
  IF evs = <<>> THEN sofar
  ELSE finishReasonOf(Tail(evs),
                      IF Head(evs).finish_reason # <<>>
                        THEN Head(evs).finish_reason[1]
                        ELSE sofar)

\* The response of an adapter: one choice; Codex (transformResponse) and
\* Claude derive finish_reason from the number of assembled calls, Copilot
\* returns the finish reason of the stream.
responseOf(adp, evs) ==
  LET n == AssembledCalls(evs)
  IN [choices |-> <<[tool_calls |-> n,
                     finish_reason |->
                       IF adp = "copilot" THEN finishReasonOf(evs, "stop")
                       ELSE IF n > 0 THEN "tool_calls" ELSE "stop"]>>]

\* The stream of the provider has been read to its end: the adapter builds
\* the response and chatCompletion returns it.
BuildResponse ==
  /\ chatResponse = <<>>
  /\ chatResponse' = <<responseOf(respAdapter, providerEvents)>>
  /\ UNCHANGED <<respAdapter, providerEvents>>
  /\ UNCHANGED <<agentVars, adapterVars, contextVars, usageVars, taskVars,
                 overlapVars, streamVars, hostVars, sseVars, chunkVars,
                 nestVars>>

InitResponse ==
  /\ variant = "finish_reason"
  /\ onApprovalNeeded = FALSE
  /\ AgentConstructed
  /\ AdapterIdle
  /\ ContextFresh
  /\ UsageFresh
  /\ TaskFresh
  /\ OverlapFresh
  /\ StreamFresh
  /\ HostFresh
  /\ SSEFresh
  /\ ChunksFresh
  /\ respAdapter \in Adapters
  /\ providerEvents \in ProviderStreams
  /\ chatResponse = <<>>
  /\ NestFresh

NextResponse == BuildResponse

SpecResponse == InitResponse /\ [][NextResponse]_vars

\* ====================================================== nested delegation
\* A run whose sub-agents delegate in turn: the handler of the task tool
\* gives a sub-agent the whole registry, the task tool included, when
\* `tools` is null or empty, and every Agent starts with its own iteration
\* budget.  The chain of agents that wait for each other is followed; the
\* calls of a message other than the delegation are left out.
\* The nesting depth up to which a run is followed.
MaxDepth == 3

\* An Agent of the chain: its `iterations`, whether it awaits a completion
\* or its tool calls, and whether its registry has the task tool.
NestedAgent(canDelegate) ==
  [iterations |-> 1, pc |-> "awaitCompletion", canDelegate |-> canDelegate]

\* The innermost agent of the chain c returns (a completion, a text answer,
\* or the iteration limit): its parent's handler returns the result, the
\* parent's tool calls are settled, and the parent goes to its next
\* iteration, or returns in turn when its budget is used up.
RECURSIVE Returned(_)
Returned(c) ==
  LET rest == SubSeq(c, 1, Len(c) - 1)
  IN IF rest = <<>> THEN <<>>
     ELSE LET parent == rest[Len(rest)]
          IN IF BudgetLeft(parent.iterations)
               THEN [rest EXCEPT ![Len(rest)] =
                       [parent EXCEPT !.iterations = @ + 1,
                                      !.pc = "awaitCompletion"]]
               ELSE Returned(rest)

\* The host's run: its registry holds the task tool.
NestedRun ==
  /\ nest = <<>>
  /\ ~runReturned
  /\ nest' = <<NestedAgent(TRUE)>>
  /\ UNCHANGED <<spawned, runReturned>>
  /\ UNCHANGED <<agentVars, adapterVars, contextVars, usageVars, taskVars,
                 overlapVars, streamVars, hostVars, sseVars, chunkVars,
                 responseVars>>

\* The provider answers the innermost agent with a call to a tool other
\* than task: its handler is started.
NestedToolCall ==
  /\ nest # <<>>
  /\ nest[Len(nest)].pc = "awaitCompletion"
  /\ nest' = [nest EXCEPT ![Len(nest)].pc = "executing"]
  /\ UNCHANGED <<spawned, runReturned>>
  /\ UNCHANGED <<agentVars, adapterVars, contextVars, usageVars, taskVars,
                 overlapVars, streamVars, hostVars, sseVars, chunkVars,
                 responseVars>>

\* That handler returns: the loop goes on while `iterations <
\* maxIterations`, else the agent returns.
NestedHandlerReturns ==
  /\ nest # <<>>
  /\ nest[Len(nest)].pc = "executing"
  /\ LET top == nest[Len(nest)]
     IN nest' = IF BudgetLeft(top.iterations)
                  THEN [nest EXCEPT ![Len(nest)] =
                          [top EXCEPT !.iterations = @ + 1,
                                      !.pc = "awaitCompletion"]]
                  ELSE Returned(nest)
  /\ runReturned' = (nest' = <<>>)
  /\ UNCHANGED spawned
  /\ UNCHANGED <<agentVars, adapterVars, contextVars, usageVars, taskVars,
                 overlapVars, streamVars, hostVars, sseVars, chunkVars,
                 responseVars>>

\* The provider answers the innermost agent with a task call: the handler
\* constructs a sub-agent, with all entries when `tools` is null or empty
\* (all) and else with the entries named, here without the task tool, and
\* awaits its run, which requests its first completion.
NestedDelegates(all) ==
  /\ nest # <<>>
  /\ Len(nest) < MaxDepth
  /\ nest[Len(nest)].pc = "awaitCompletion"
  /\ nest[Len(nest)].canDelegate
  /\ nest' = Append([nest EXCEPT ![Len(nest)].pc = "executing"],
                    NestedAgent(all))
  /\ spawned' = spawned + 1
  /\ UNCHANGED runReturned
  /\ UNCHANGED <<agentVars, adapterVars, contextVars, usageVars, taskVars,
                 overlapVars, streamVars, hostVars, sseVars, chunkVars,
                 responseVars>>

\* The provider answers the innermost agent with attempt_completion (or
\* text, or nothing): its run returns.
NestedCompletes ==
  /\ nest # <<>>
  /\ nest[Len(nest)].pc = "awaitCompletion"
  /\ nest' = Returned(nest)
  /\ runReturned' = (nest' = <<>>)
  /\ UNCHANGED spawned
  /\ UNCHANGED <<agentVars, adapterVars, contextVars, usageVars, taskVars,
                 overlapVars, streamVars, hostVars, sseVars, chunkVars,
                 responseVars>>

InitNest ==
  /\ variant = "completion_tool"
  /\ onApprovalNeeded = FALSE
  /\ AgentConstructed
  /\ AdapterIdle
  /\ ContextFresh
  /\ UsageFresh
  /\ TaskFresh
  /\ OverlapFresh
  /\ StreamFresh
  /\ HostFresh
  /\ SSEFresh
  /\ ChunksFresh
  /\ ResponseFresh
  /\ NestFresh

NextNest ==
  \/ NestedRun
  \/ NestedToolCall
  \/ NestedHandlerReturns
  \/ \E all \in BOOLEAN : NestedDelegates(all)
  \/ NestedCompletes

SpecNest == InitNest /\ [][NextNest]_vars

\* ================================================================ claims
\* The safe set as the specification lists it (read, glob, search, fetch,
\* todo-read, under the names the tools are registered with).
SpecSafeSet == {"read", "glob", "grep", "web_fetch", "todo_read"}

Calls == {batch[i] : i \in 1..Len(batch)}

\* The positions of msgs that hold an assistant message with tool calls.
CallingPositions(msgs) ==
  {p \in 1..Len(msgs) :
     msgs[p].role = "assistant" /\ Len(msgs[p].tool_calls) > 0}

\* C1: once the calls of an assistant message with k tool calls have been
\* executed, the k messages that follow it are tool-result messages, the
\* i-th carrying the id of the i-th call, and no further tool-result
\* follows them; this holds whatever the order in which the calls settled.
C1_ResultsInCallOrder ==
  \A p \in CallingPositions(messages) :
    LET ids == messages[p].tool_calls
        k == Len(ids)
    IN IF pc = "executing" /\ p = Len(messages)
         THEN TRUE
         ELSE /\ Len(messages) >= p + k
              /\ \A i \in 1..k :
                   /\ messages[p + i].role = "tool"
                   /\ messages[p + i].tool_call_id = ids[i]
              /\ Len(messages) > p + k => messages[p + k + 1].role # "tool"

\* C1 witness: the results of a two-call message were pushed after the
\* second call settled before the first.
C1_Witness ==
  /\ outOfOrder
  /\ pc = "awaitCompletion"
  /\ \E p \in CallingPositions(messages) :
       /\ Len(messages[p].tool_calls) >= 2
       /\ p + Len(messages[p].tool_calls) = Len(messages)

\* C2: in the message list of every completion request, each assistant
\* message with tool calls is followed, before the next assistant message,
\* by exactly one tool-result message per call id.
C2_SentPairing ==
  \A p \in CallingPositions(sent) :
    LET later == {q \in (p + 1)..Len(sent) : sent[q].role = "assistant"}
        stop == IF later = {} THEN Len(sent) + 1
                ELSE CHOOSE q \in later : \A r \in later : q <= r
        ids == sent[p].tool_calls
    IN \A i \in 1..Len(ids) :
         Cardinality({q \in (p + 1)..(stop - 1) :
                        sent[q].role = "tool" /\ sent[q].tool_call_id = ids[i]}) = 1

\* C2 witness: a request was sent whose list holds two assistant messages
\* with tool calls, one of them with two calls.
C2_Witness ==
  /\ Cardinality(CallingPositions(sent)) >= 2
  /\ \E p \in CallingPositions(sent) : Len(sent[p].tool_calls) >= 2

\* C3: no call of the latest message waits for another call to start (each
\* one is awaiting its own approval, running its handler or settled), and a
\* completion request that follows the execution of tool calls is issued
\* only when every call has settled with a payload of its own, the pushed
\* results being one per call in call order.
C3_ConcurrentThenAllSettled ==
  /\ [](\A c \in Calls : c.status \in {"approval", "running", "settled"})
  /\ [][(pc = "executing" /\ requests' > requests) =>
          /\ \A i \in 1..Len(batch) :
               /\ batch[i].status = "settled"
               /\ batch[i].content \in {"result", "error", "denied"}
               /\ messages'[Len(messages) + i].role = "tool"
               /\ messages'[Len(messages) + i].tool_call_id = batch[i].id
          /\ Len(messages') = Len(messages) + Len(batch)]_vars

\* C3 witness: two handlers are running at the same time.
C3_Witness ==
  \E i, j \in 1..Len(batch) :
    i # j /\ batch[i].status = "running" /\ batch[j].status = "running"

\* C4: with an approval source supplied, the handler of a call whose name
\* is outside the safe set is invoked only after the approval source was
\* invoked for that call and decided allow_once or allow_always.
C4_HandlerOnlyIfAllowed ==
  onApprovalNeeded =>
    \A c \in Calls :
      (c.name \notin SpecSafeSet /\ c.invoked) =>
        (c.asked /\ c.decision \in {"allow_once", "allow_always"})

\* C4 witness: the handler of bash runs after the human answered allow_once.
C4_Witness ==
  \E c \in Calls :
    c.name = "bash" /\ c.invoked /\ c.asked /\ c.decision = "allow_once"

\* C5 (as claimed): a call to a safe-listed tool never invokes the approval
\* source.
C5_SafeNeverAsked ==
  \A c \in Calls : c.name \in SpecSafeSet => ~c.asked

Denials == {"deny_once", "deny_always"}

\* What C6 states of a call in every state: a denied call never has its
\* handler invoked, its payload is the denial error and its only event is
\* `denied`; a payload of that kind comes from nothing but a denial.
DenialIsLocal ==
  \A c \in Calls :
    /\ c.decision \in Denials =>
         /\ ~c.invoked
         /\ c.status = "settled"
         /\ c.content = "denied"
         /\ c.events = <<"denied">>
    /\ c.content = "denied" => c.decision \in Denials

\* executeToolCalls returns in this step, and one of its calls was denied.
ReturnsWithDenial ==
  /\ pc = "executing"
  /\ pc' # "executing"
  /\ \E c \in Calls : c.content = "denied"

\* C6 (as claimed): a denied call never has its handler invoked, its result
\* is the denial error, a denied event is emitted, and the run continues
\* with the next completion request.
C6_DenialThenNextRequest ==
  /\ []DenialIsLocal
  /\ [][ReturnsWithDenial =>
          (pc' = "awaitCompletion" /\ requests' = requests + 1)]_vars

\* C6 (amended): as claimed, except that in the completion-tool loop the run
\* returns instead of requesting when the same message called
\* attempt_completion (the completion result) or was the maxIterations-th
\* (the max-iterations result); it never throws.
C6_DenialRecovered ==
  /\ []DenialIsLocal
  /\ [][ReturnsWithDenial =>
          IF variant = "completion_tool" /\ completionResult # <<>>
            THEN pc' = "done" /\ result'.answer = "completion"
          ELSE IF variant = "completion_tool" /\ iterations >= MaxIterations
            THEN pc' = "done" /\ result'.answer = "max_iterations"
          ELSE pc' = "awaitCompletion" /\ requests' = requests + 1]_vars

\* C6 witness: the human answered deny_always and the run then issued its
\* next completion request.
C6_Witness ==
  /\ sessionDenied # {}
  /\ pc = "awaitCompletion"
  /\ requests >= 2

\* The id sequence is strictly increasing (ids are given in request order).
Increasing(ids) == \A i, j \in 1..Len(ids) : i < j => ids[i] < ids[j]

\* C7: prompts are shown in the order the requests were made, one at a
\* time: every prompt shown before the latest one has been resolved, the
\* prompt on display is the latest one and is undecided, and the requests
\* still waiting come after it.
C7_OnePromptAtATime ==
  /\ Increasing(promptLog \o approvalQueue)
  /\ \A i \in 1..(Len(promptLog) - 1) : promptLog[i] \in resolved
  /\ presented # 0 =>
       /\ promptLog # <<>>
       /\ presented = promptLog[Len(promptLog)]
       /\ presented \notin resolved
  /\ presented = 0 => approvalQueue = <<>>

\* C7 witness: the second of two concurrent requests is on display after
\* the first was resolved.
C7_Witness ==
  /\ Len(promptLog) >= 2
  /\ presented = promptLog[2]
  /\ promptLog[1] \in resolved

\* C8 (as claimed): once allow_always was answered for a tool, no prompt
\* for that tool is on display, also not for a request that was waiting in
\* the queue.
C8_NoPromptAfterAllowAlways ==
  presented # 0 => batch[IndexOf(batch, presented)].name \notin sessionAllowed

\* The number of rounds of tool calls the run has executed or is executing.
Rounds == Cardinality(CallingPositions(messages))

\* C9 (as claimed): if every response requests tool calls, run executes at
\* most maxIterations rounds and returns the max-iterations result with
\* iterations = maxIterations.
C9_AlwaysToolCallsEndsInMaxIterations ==
  /\ Rounds <= MaxIterations
  /\ (pc \in {"done", "threw"} /\ onlyToolCalls) =>
       /\ pc = "done"
       /\ result = [answer |-> "max_iterations", iterations |-> MaxIterations]

\* C9 (amended): the same, provided no response of the completion-tool loop
\* calls attempt_completion.
C9_ToolCallsWithoutCompletionEndInMaxIterations ==
  /\ Rounds <= MaxIterations
  /\ (pc \in {"done", "threw"} /\ onlyToolCalls /\ completionResult = <<>>) =>
       /\ pc = "done"
       /\ result = [answer |-> "max_iterations", iterations |-> MaxIterations]

\* C9 witness: run returned the max-iterations result after maxIterations
\* rounds of tool calls and nothing but tool-call responses.
C9_Witness ==
  /\ pc = "done"
  /\ onlyToolCalls
  /\ Rounds = MaxIterations
  /\ result.answer = "max_iterations"

\* C10 (as claimed): when the response is plain text, run returns with that
\* text as the answer, whatever the number of rounds already executed.
C10_TextIsTheAnswer ==
  (pc = "done" /\ lastResponse = "text") => result.answer = "text"

\* C11: a response with an empty choices array makes run return at once the
\* result whose answer reports that the API returned no response: no
\* further completion request is issued, no tool call is started, no message
\* is added, and run does not throw.
C11_EmptyChoicesReturnsAtOnce ==
  /\ [](lastResponse = "empty" =>
          (pc = "done" /\ result.answer = "no_response"))
  /\ [][(pc = "awaitCompletion" /\ lastResponse' = "empty") =>
          /\ pc' = "done"
          /\ result' = [answer |-> "no_response", iterations |-> iterations]
          /\ requests' = requests
          /\ messages' = messages
          /\ batch' = batch
          /\ nextId' = nextId]_vars
  /\ [][pc = "done" => (pc' = "done" /\ requests' = requests)]_vars

\* C11 witness: the response to the second completion request was empty and
\* run returned the no-response result.
C11_Witness ==
  /\ pc = "done"
  /\ lastResponse = "empty"
  /\ requests >= 2
  /\ result.answer = "no_response"

\* The name of the call is in no registry and is not intercepted by the loop.
UnknownTool(c) ==
  /\ c.name \notin toolHandlers
  /\ ~(variant = "completion_tool" /\ c.name = "attempt_completion")

\* The call failed as a tool: unknown name, malformed arguments, or a handler
\* that threw.
ToolFailed(c) ==
  \/ UnknownTool(c)
  \/ c.arguments = "malformed"
  \/ c.invoked /\ c.content = "error"

\* C12 (as claimed): a call with an unknown name, with malformed arguments
\* or whose handler throws yields an {error} tool result (the denial error
\* when the human denied it first), and when executeToolCalls returns with
\* such a call the run issues its next completion request.
C12_ToolErrorsAreLocal ==
  /\ [](\A c \in Calls :
          (c.status = "settled" /\ ToolFailed(c)) =>
             c.content \in {"error", "denied"})
  /\ [][(pc = "executing" /\ pc' # "executing" /\ \E c \in Calls : ToolFailed(c))
          => (pc' = "awaitCompletion" /\ requests' = requests + 1)]_vars

\* C13 (as claimed): no exception other than the caller's cancellation
\* leaves run.
C13_NoExceptionCrossesRun == pc # "threw"

\* C14: a completion call that returns after f failed attempts (f < 3) has
\* delivered exactly f retry notifications, the k-th numbered k, carrying
\* the error text of the k-th failure, and delivered when k requests had
\* been issued, that is before attempt k+1 was.
C14_RetriesNotifiedInOrder ==
  call = "returned" =>
    /\ Len(failures) < 3
    /\ fetches = Len(failures) + 1
    /\ Len(retries) = Len(failures)
    /\ \A k \in 1..Len(retries) :
         /\ retries[k].attempt = k
         /\ retries[k].error = failures[k]
         /\ retries[k].at = k

\* C14 witness: the call failed twice, with different errors, then returned.
C14_Witness ==
  /\ call = "returned"
  /\ Len(failures) = 2
  /\ Len(retries) = 2
  /\ failures[1] # failures[2]

\* C15: a completion call issues at most 3 requests; the k-th wait is 1000 ms
\* doubled k-1 times and every request after the first follows a wait; when
\* the 3 requests have failed the call has thrown the last error.
C15_ThreeAttemptsWithBackoff ==
  /\ fetches <= 3
  /\ Len(delays) <= 2
  /\ \A k \in 1..Len(delays) : delays[k] = 1000 * 2 ^ (k - 1)
  /\ call = "fetching" => Len(delays) = fetches - 1
  /\ (fetches = 3 /\ Len(failures) = 3) =>
       (call = "threw" /\ thrown = failures[3])

\* C15 witness: three requests failed with no cancellation; the call waited
\* 1 s, then 2 s, and threw.
C15_Witness ==
  /\ call = "threw"
  /\ ~signalAborted
  /\ fetches = 3
  /\ delays = <<1000, 2000>>

\* C16 (as claimed): when a completion call fails while the signal is
\* raised, the error it surfaces is the abort.
C16_AbortSurfacesAsAbort ==
  (call = "threw" /\ signalAborted) => thrown = "AbortError"

\* C17: once the signal is raised no request is issued, by the current call
\* or by a later call of the run, and no retry notification is delivered
\* and no backoff wait is started.
C17_NothingAfterSignal ==
  [][signalAborted =>
       /\ issued' = issued
       /\ fetches' <= fetches
       /\ Len(retries') <= Len(retries)
       /\ Len(delays') <= Len(delays)]_vars

\* C17 witness: the signal was raised during the first backoff wait; the call
\* threw the abort with one request issued and one notification delivered.
C17_Witness ==
  /\ signalAborted
  /\ call = "threw"
  /\ thrown = "AbortError"
  /\ fetches = 1
  /\ Len(retries) = 1
  /\ Len(delays) = 1

\* Every message of g is a message of h.
AllIn(g, h) == \A i \in 1..Len(g) : \E j \in 1..Len(h) : h[j] = g[i]

\* The keep count as the specification gives it.
SpecKeep == IF 10 * latestPrompt >= 9 * contextWindow THEN 12 ELSE 20

\* C18: pruneHistory returns its input unchanged when the latest prompt is
\* below 80% of the window, when the input has no more non-system messages
\* than the keep count, and whenever no message of the input is missing from
\* the output; applied to its own output, with the same usage, it changes
\* nothing.
C18_UnchangedWhenNothingDropped ==
  pruned =>
    /\ 10 * latestPrompt < 8 * contextWindow => history = input
    /\ Len(nonSystem(input)) <= SpecKeep => history = input
    /\ AllIn(input, history) => history = input
    /\ pruneHistory(history, latestPrompt, contextWindow) = history

\* C18 witness: compaction applies, and pruneHistory returned unchanged a
\* history that holds the summary of an earlier compaction.
C18_Witness ==
  /\ pruned
  /\ 10 * latestPrompt >= 8 * contextWindow
  /\ history = input
  /\ \E i \in 2..Len(history) : history[i].lines # <<>>

\* C19: the output of pruneHistory is no longer than its input and holds
\* every system message of the input.
C19_NeverLongerSystemsSurvive ==
  pruned =>
    /\ Len(history) <= Len(input)
    /\ \A i \in 1..Len(input) :
         input[i].role = "system" => AllIn(<<input[i]>>, history)

\* C19 witness: a history that held the summary of an earlier compaction was
\* compacted again and got shorter.
C19_Witness ==
  /\ pruned
  /\ Len(history) < Len(input)
  /\ \E i \in 1..Len(input) : input[i].lines # <<>>

\* C20 (as claimed): when the latest prompt is at least 80% of the window,
\* the non-system messages of the output are the most recent N of the input,
\* in order, with N = 12 from 90% of the window on and 20 below, and when
\* older ones exist the output has exactly one system message more than the
\* input, holding one digest per older message.
C20_KeepsMostRecentN ==
  (pruned /\ 10 * latestPrompt >= 8 * contextWindow) =>
    LET old == nonSystem(input)
        n == IF Len(old) <= SpecKeep THEN 0 ELSE Len(old) - SpecKeep
        dropped == SubSeq(old, 1, n)
        added == SelectSeq(systemMessages(history),
                           LAMBDA m : ~AllIn(<<m>>, input))
    IN /\ nonSystem(history) = SubSeq(old, n + 1, Len(old))
       /\ n = 0 => added = <<>>
       /\ n > 0 =>
            /\ Len(added) = 1
            /\ Len(added[1].lines) = n
            /\ \A k \in 1..n : added[1].lines[k].of = dropped[k].id

\* C27 (as claimed): the completion-tool loop returns an answer provided by
\* the model only when attempt_completion was called, the answer being that
\* call's result; a response without tool calls does not end the run with
\* its text.
C27_OnlyCompletionToolEndsRun ==
  (variant = "completion_tool" /\ pc = "done") =>
    /\ result.answer \notin {"text", "truncated_text"}
    /\ result.answer = "completion" => completionResult # <<>>

\* C28 (as claimed): a response with finish reason length makes the loop
\* append the partial assistant message and a continue instruction and
\* request another completion; its text is not returned as the answer.
C28_LengthContinues ==
  [][(pc = "awaitCompletion" /\ lastResponse' = "length") =>
       /\ pc' = "awaitCompletion"
       /\ requests' = requests + 1
       /\ Len(messages') = Len(messages) + 2]_vars

\* C29 (as claimed): the events of a dispatched call are one denied event
\* alone, or one started event followed, once the call has settled, by one
\* completed event; no completed event comes without a started one.
C29_LifecycleEvents ==
  \A c \in Calls :
    /\ c.status = "settled" =>
         c.events \in {<<"denied">>, <<"started", "completed">>}
    /\ c.status = "running" => c.events = <<"started">>
    /\ c.status = "approval" => c.events = <<>>

\* C21 (as claimed): after runs that were all recorded, the quantity compared
\* with the context window is the prompt token count of the latest response
\* that carried usage, and the completion and total tokens are the sums over
\* all the responses that carried usage.
C21_LatestPromptIsCompared ==
  (~running /\ allRecorded) =>
    /\ latestPrompt = lastReported
    /\ totalUsage.completionTokens = reported.completionTokens
    /\ totalUsage.totalTokens = reported.totalTokens

\* C22 (as claimed): for a delegation call that gives a list of names the
\* sub-agent's registry is exactly the parent-registry entries named in the
\* list, the names absent from the parent registry are the ones warned
\* about, and no entry that was not requested is given; for a null list the
\* registry is the full parent registry, the delegation tool included.
C22_RegistryIsTheRequestedSubset ==
  constructed =>
    IF tools.isNull
      THEN subagentEntries = toolHandlers /\ "task" \in subagentEntries
      ELSE /\ subagentEntries = toolHandlers \cap Names(tools.names)
           /\ missing = Names(tools.names) \ toolHandlers

\* The sub-agent of delegation call c failed: its run rejected (provider
\* error after the retries, or another exception), or returned the
\* no-response or the max-iterations result.
SubagentFailed(c) ==
  /\ c.name = "task"
  /\ c.id \in DOMAIN subagents
  /\ \/ subagents[c.id].pc = "threw"
     \/ subagents[c.id].answer \in {"no_response", "max_iterations"}

\* What C23 states of the parent's batch in every state: the parent has not
\* thrown, and the delegation call of a failed sub-agent is settled with the
\* failure as its payload ({error} for a rejection, {result} for a failure
\* answer).
FailureIsTheResult ==
  /\ pc # "threw"
  /\ \A c \in Calls :
       SubagentFailed(c) =>
         /\ c.status = "settled"
         /\ c.content = IF subagents[c.id].pc = "threw" THEN "error"
                                                        ELSE "result"

\* A sub-agent fails in this step: the parent stays in executeToolCalls and
\* the other calls of the batch are as they were.
FailureIsLocal ==
  \A i \in 1..Len(batch) :
    (~SubagentFailed(batch[i]) /\ Len(batch') = Len(batch)
       /\ SubagentFailed(batch[i])') =>
      /\ pc' = "executing"
      /\ \A j \in 1..Len(batch) : j # i => batch'[j] = batch[j]

\* executeToolCalls returns in this step, and a sub-agent of its batch
\* failed.
ReturnsWithFailure ==
  /\ pc = "executing"
  /\ pc' # "executing"
  /\ \E c \in Calls : SubagentFailed(c)

\* C23 (as claimed): a failing sub-agent never makes the parent run throw
\* or end; its failure is the settled result of its delegation call, the
\* other calls of the batch are unaffected, and the parent goes on with its
\* next completion request.
C23_FailureThenNextRequest ==
  /\ []FailureIsTheResult
  /\ [][FailureIsLocal]_vars
  /\ [][ReturnsWithFailure =>
          (pc' = "awaitCompletion" /\ requests' = requests + 1)]_vars

\* C23 (amended): as claimed, except that the parent returns instead of
\* requesting when the same message called attempt_completion (the
\* completion result) or was the maxIterations-th (the max-iterations
\* result); it never throws.
C23_FailureRecovered ==
  /\ []FailureIsTheResult
  /\ [][FailureIsLocal]_vars
  /\ [][ReturnsWithFailure =>
          IF completionResult # <<>>
            THEN pc' = "done" /\ result'.answer = "completion"
          ELSE IF iterations >= MaxIterations
            THEN pc' = "done" /\ result'.answer = "max_iterations"
          ELSE pc' = "awaitCompletion" /\ requests' = requests + 1]_vars

\* C23 witness: the sub-agent of a delegation call rejected, the call is
\* settled with {error}, the handler of another call of the batch returned
\* after that, and the parent has iterations left.
C23_Witness ==
  /\ pc = "executing"
  /\ BudgetLeft(iterations)
  /\ AllSettled(batch)
  /\ \E c, d \in Calls :
       /\ SubagentFailed(c) /\ subagents[c.id].pc = "threw"
       /\ c.content = "error"
       /\ d.name = "read" /\ d.invoked /\ d.content = "result"

\* C24 (as claimed): with an approval source given to the parent, the
\* handler of a tool outside the safe list called by a sub-agent is invoked
\* only after an allow decision for that call.
C24_SubagentCallsAreGated ==
  \A id \in DOMAIN subagents :
    \A k \in 1..Len(subagents[id].call) :
      LET c == subagents[id].call[k] IN
        (onApprovalNeeded /\ requiresApproval(c.name) /\ c.invoked)
          => Proceeds(c.decision)

\* The sub-agent of call i of the batch issues a completion request in this
\* step: its first one when the handler of the call is invoked, or the next
\* one of its loop.
SubagentIssues(i) ==
  /\ pc' = "executing"
  /\ i \in 1..Len(batch')
  /\ batch'[i].name = "task"
  /\ batch'[i].status = "running"
  /\ LET id == batch'[i].id
         after == IF id \in DOMAIN subagents' THEN subagents'[id]
                                              ELSE NewSubagent
         before == IF Delegated(i) /\ batch[i].id = id
                     THEN SubagentOf(batch[i]).iterations ELSE 0
     IN after.pc = "awaitCompletion" /\ after.iterations > before

\* C25 (as claimed): once the signal of the run is raised, a sub-agent whose
\* completion request is in flight gets no response (the request rejects)
\* and no sub-agent issues a completion request.
C25_SignalCoversSubagents ==
  [][signalAborted =>
       \A i \in 1..MaxCalls :
         /\ ~SubagentIssues(i)
         /\ SubagentAwaits(i) =>
              \/ UNCHANGED subagents
              \/ /\ batch[i].id \in DOMAIN subagents'
                 /\ subagents'[batch[i].id].pc = "threw"]_vars

\* C26 (as claimed): each run call owns its message list: the messages of a
\* completion request of one run call are the system prompt and messages
\* that run call built, also when run calls on one instance overlap.
C26_RunsOwnTheirMessages ==
  \A r \in 1..MaxRunCalls :
    \A k \in 1..Len(runCalls[r].sent) :
      runCalls[r].sent[k].owner \in {0, r}

\* The indices of the deltas of the stream, ascending.
RECURSIVE Ascending(_)
Ascending(set) ==
  IF set = {} THEN <<>>
  ELSE LET least == CHOOSE k \in set : \A j \in set : k <= j
       IN <<least>> \o Ascending(set \ {least})

\* The argument deltas of index idx among the first n deltas, concatenated
\* in arrival order.
RECURSIVE ArgumentsOf(_, _)
ArgumentsOf(idx, n) ==
  IF n = 0 THEN <<>>
  ELSE ArgumentsOf(idx, n - 1) \o
         (IF deltas[n].index = idx THEN deltas[n].arguments ELSE <<>>)

\* C30: when the stream has ended the assembled calls are one per index of
\* the stream, in ascending index order, each with the id and the name
\* announced for its index and with the argument deltas of its index
\* concatenated in arrival order.
C30_AssembledByIndex ==
  streamEnded =>
    LET order == Ascending({deltas[k].index : k \in 1..Len(deltas)}) IN
      /\ Len(assembledToolCalls) = Len(order)
      /\ \A p \in 1..Len(order) :
           /\ assembledToolCalls[p].id = CallId(order[p])
           /\ assembledToolCalls[p].name = CallName(order[p])
           /\ assembledToolCalls[p].arguments =
                ArgumentsOf(order[p], Len(deltas))

\* C30 witness: the deltas of index 1 arrived around a delta of index 0,
\* and the call of index 1 was assembled from two different fragments.
C30_Witness ==
  /\ streamEnded
  /\ Len(deltas) = 3
  /\ deltas[1].index = 1 /\ deltas[2].index = 0 /\ deltas[3].index = 1
  /\ Len(assembledToolCalls) = 2
  /\ assembledToolCalls[2].arguments = <<"a", "b">>

\* C32 (as claimed): no tool name is in both the session always-allow set
\* and the session always-deny set.
C32_AllowAndDenyDisjoint == sessionAllowed \cap sessionDenied = {}

\* The latest assistant message of the completion-tool loop holds the
\* completion call together with other calls.
MixedCompletion ==
  /\ variant = "completion_tool"
  /\ pc = "executing"
  /\ \E c, d \in Calls :
       c.name = "attempt_completion" /\ d.name # "attempt_completion"

\* A call other than the completion call went through approval when it is
\* gated, through its handler when it proceeded, and has settled.
Handled(c) ==
  /\ c.status = "settled"
  /\ Gated(variant, onApprovalNeeded, c.name) =>
       c.asked /\ c.decision \in ApprovalDecision
  /\ (Gated(variant, onApprovalNeeded, c.name) => Proceeds(c.decision)) =>
       c.invoked /\ c.content \in {"result", "error"}

\* C39: when executeToolCalls returns from a message that holds the
\* completion call together with other calls, every other call was approved
\* or denied, executed if it proceeded, and settled; run returns the result
\* string of the last completion call in call order and issues no
\* completion request afterwards.
C39_CompletionWithOtherCalls ==
  /\ [][(MixedCompletion /\ pc' # "executing") =>
          \A c \in Calls : c.name # "attempt_completion" => Handled(c)]_vars
  /\ [][(/\ variant = "completion_tool"
         /\ pc = "executing"
         /\ pc' # "executing"
         /\ \E c \in Calls : c.name = "attempt_completion") =>
          /\ pc' = "done"
          /\ requests' = requests
          /\ result'.answer = "completion"
          /\ \E i \in 1..Len(batch) :
               /\ batch[i].name = "attempt_completion"
               /\ \A j \in (i + 1)..Len(batch) :
                    batch[j].name # "attempt_completion"
               /\ completionResult' = <<batch[i].id>>]_vars
  /\ [][pc = "done" => requests' = requests]_vars

\* C39 witness: run returned the completion result from its first message,
\* which held two calls, one of them approved by the human with
\* allow_always.
C39_Witness ==
  /\ variant = "completion_tool"
  /\ pc = "done"
  /\ result.answer = "completion"
  /\ iterations = 1
  /\ sessionAllowed # {}
  /\ Len(messages) = 5
  /\ Len(messages[3].tool_calls) = 2

\* The requests handleApprovalNeeded chained on approvalQueueRef.
Accepted ==
  {id \in 1..Len(approvalRequests) :
     \/ id = presented
     \/ id \in resolved
     \/ \E k \in 1..Len(approvalQueue) : approvalQueue[k] = id}

\* C33: every approval request the host's handler accepted is eventually
\* resolved, given that the human answers each prompt that is displayed: no
\* host step takes a displayed, undecided approval prompt off the screen
\* without resolving its request.
C33_ApprovalsResolved ==
  /\ [][(mode.kind = "approval" /\ mode' # mode) => mode.id \in resolved']_vars
  /\ \A id \in 1..MaxRequests : (id \in Accepted) ~> (id \in resolved)

\* The text of a whole body, decoded in one piece.
RECURSIVE WholeText(_)
WholeText(bs) ==
  IF bs = <<>> THEN <<>>
  ELSE IF Head(bs) = "hi"
    THEN IF Len(bs) = 1 THEN <<>>
         ELSE IF bs[2] = "lo" THEN <<"e2">> \o WholeText(Tail(Tail(bs)))
         ELSE <<"FFFD">> \o WholeText(Tail(bs))
  ELSE <<IF Head(bs) = "lo" THEN "FFFD" ELSE Head(bs)>> \o WholeText(Tail(bs))

\* The lines of a text that end with a line feed, in order.
WholeLines(str) ==
  LET feeds == {k \in 1..Len(str) : str[k] = "LF"}
      Start(k) == IF \E j \in feeds : j < k
                    THEN 1 + CHOOSE j \in feeds :
                               j < k /\ \A i \in feeds : i < k => i <= j
                    ELSE 1
      Nth(n) == CHOOSE k \in feeds : Cardinality({j \in feeds : j <= k}) = n
  IN [n \in 1..Cardinality(feeds) |-> SubSeq(str, Start(Nth(n)), Nth(n) - 1)]

\* The events of a whole body: its data lines that parse, up to the line
\* that ends the Codex stream.
WholeEvents(adp, bs) ==
  LET lines == WholeLines(WholeText(bs))
      IsData(l) == l # <<>> /\ l[1] = "d"
      ends == {n \in 1..Len(lines) :
                 adp = "codex" /\ lines[n] = <<"d", "!">>}
      upto == IF ends = {} THEN Len(lines)
              ELSE CHOOSE n \in ends : \A j \in ends : n <= j
      kept == SelectSeq(SubSeq(lines, 1, upto),
                        LAMBDA l : IsData(l) /\ IsEvent(Tail(l)))
  IN [n \in 1..Len(kept) |-> Tail(kept[n])]

\* C31: what a provider event stream decodes to depends only on the bytes
\* of the stream, not on how the reads split them: when the parser returns,
\* the events it handled are the events of the data lines of the whole body,
\* each once and in order, and while it reads it has handled a prefix of
\* them.
C31_ChunkingIndependent ==
  LET whole == WholeEvents(sseAdapter, body)
  IN /\ Len(decoded) <= Len(whole)
     /\ decoded = SubSeq(whole, 1, Len(decoded))
     /\ (readerDone \/ streamDone) => decoded = whole

\* The parser has returned after a data line that arrived in two reads.
C31_Witness ==
  /\ readerDone
  /\ lineSplit
  /\ decoded # <<>>
  /\ decoded = WholeEvents(sseAdapter, body)

\* C34: when a completion call of an adapter returns, the text chunks it
\* delivered to the text-chunk callback, concatenated, are the text content
\* of the response it returns, also when an earlier attempt of the call
\* failed after part of its stream was delivered.
C34_ChunksAreContent ==
  call = "returned" => Delivered = Content

\* C35: every ChatResponse an adapter returns has exactly one choice, whose
\* finish reason is tool_calls if and only if its message carries at least
\* one tool call.
C35_FinishReasonMatchesCalls ==
  chatResponse # <<>> =>
    LET r == chatResponse[1]
    IN /\ Len(r.choices) = 1
       /\ r.choices[1].finish_reason = "tool_calls"
            <=> r.choices[1].tool_calls > 0

\* The system messages a request body carries.
Conveyed(req) ==
  {req.system[k] : k \in 1..Len(req.system)}
    \cup {req.messages[k] : k \in {j \in 1..Len(req.messages) :
                                     req.messages[j].role = "system"}}

\* C36: the request each adapter builds for a run conveys every system
\* message of the run's message list: the agent's system prompt and every
\* compaction summary retained in the history.
C36_SystemMessagesConveyed ==
  \A adp \in Adapters :
    LET msgs == RunMessages(history)
    IN \A k \in 1..Len(msgs) :
         msgs[k].role = "system" => msgs[k] \in Conveyed(requestBody(adp, msgs))

\* The assistant message m issued a tool call that the history h answers.
Answered(m, h) ==
  \E k \in 1..Len(h) : h[k].role = "tool" /\ toolCallIdOf(h[k]) = m.id

\* The tool-call pairing of the list q, for the calls the history h answers:
\* every tool message comes after the assistant message that issued its
\* call, and every assistant message with an answered call is followed by
\* the tool message of that call.
Paired(q, h) ==
  /\ \A k \in 1..Len(q) :
       q[k].role = "tool" =>
         \E j \in 1..(k - 1) :
           q[j].role = "assistant" /\ q[j].id = toolCallIdOf(q[k])
  /\ \A j \in 1..Len(q) :
       (q[j].role = "assistant" /\ Answered(q[j], h)) =>
         \E k \in (j + 1)..Len(q) :
           q[k].role = "tool" /\ toolCallIdOf(q[k]) = q[j].id

C38_NestingBounded ==
  Len(nest) < MaxDepth

====
